---- MODULE Spec2Model ----
(***************************************************************************)
(* Model of the metrics engine of gcp-resource-portal (backend/server.js): *)
(* the CPU:memory ratio validator, the recommendation, efficiency and cost *)
(* functions, the cache-aside helpers and the POST /api/metrics handler.   *)
(*                                                                         *)
(* JavaScript numbers are IEEE-754 binary64 values.  They are modelled     *)
(* exactly: a finite number is sign * m * 2^e with m an odd natural number *)
(* kept as little-endian limbs, and every arithmetic operation rounds its  *)
(* exact result to 53 significant bits, ties to even, as the hardware does.*)
(*                                                                         *)
(* Intermediate values are handed from one definition to the next as       *)
(* arguments (a definition named XWith..., XFrom... continues X) instead   *)
(* of being named in a LET: TLC's coverage statistics copy the body of a   *)
(* LET definition at every use.                                            *)
(***************************************************************************)
EXTENDS Integers, Sequences, FiniteSets, TLC

(***************************************************************************)
(* Natural numbers of any size, as little-endian sequences of limbs with   *)
(* no leading zero limb.  Carries are found by looking back over the limbs *)
(* rather than by recursion, and every definition looks at its arguments   *)
(* before it hands them on, which keeps TLC's evaluation shallow.          *)
(***************************************************************************)
LimbBits == 15
LimbBase == 2^LimbBits
MantissaBits == 53

\* limb i of a, 0 outside its length
BLimb(a, i) == IF i >= 1 /\ i <= Len(a) THEN a[i] ELSE 0

\* a without its leading zero limbs
BStrip(a) ==
  SubSeq(a, 1, CHOOSE n \in 0..Len(a) :
                 (n = 0 \/ a[n] # 0) /\ \A i \in (n + 1)..Len(a) : a[i] = 0)

\* the limbs f[1], ..., f[n] as a number: the sequence they make, stripped
BOfLimbs(f) == BStrip(f \o <<>>)

\* the number n < 2^31
BFromInt(n) == BStrip(<<n % LimbBase, (n \div LimbBase) % LimbBase, n \div (LimbBase * LimbBase)>>)

\* a number below 2^31 as an integer
BToInt(a) == BLimb(a, 1) + LimbBase * BLimb(a, 2) + LimbBase * LimbBase * BLimb(a, 3)

\* s[i] being the sum of two limbs: limb i takes a carry when a limb below
\* overflows and every limb between is full
BCarry(s, i) ==
  \E j \in 1..(i - 1) : s[j] >= LimbBase /\ \A k \in (j + 1)..(i - 1) : s[k] = LimbBase - 1

BAddSums(s) ==
  BOfLimbs([i \in 1..Len(s) |-> (s[i] + (IF BCarry(s, i) THEN 1 ELSE 0)) % LimbBase])

\* a + b for a no shorter than b
BAddLonger(a, b) == BAddSums([i \in 1..(Len(a) + 1) |-> BLimb(a, i) + BLimb(b, i)] \o <<>>)

BAdd(a, b) == IF Len(a) < Len(b) THEN BAddLonger(b, a) ELSE BAddLonger(a, b)

\* d[i] being the difference of two limbs: limb i gives a borrow when a limb
\* below is negative and every limb between is zero
BBorrow(d, i) ==
  \E j \in 1..(i - 1) : d[j] < 0 /\ \A k \in (j + 1)..(i - 1) : d[k] = 0

BSubDiffs(d) ==
  BOfLimbs([i \in 1..Len(d) |-> (d[i] - (IF BBorrow(d, i) THEN 1 ELSE 0)) % LimbBase])

\* a - b for a >= b
BSub(a, b) ==
  IF Len(b) = 0 \/ Len(a) = 0 THEN a ELSE BSubDiffs([i \in 1..Len(a) |-> a[i] - BLimb(b, i)] \o <<>>)

\* -1, 0, 1 as a < b, a = b, a > b
BCmp(a, b) ==
  IF Len(a) < Len(b) THEN -1
  ELSE IF Len(a) > Len(b) THEN 1
  ELSE IF \A i \in 1..Len(a) : a[i] = b[i] THEN 0
  ELSE IF \E i \in 1..Len(a) : a[i] > b[i] /\ \A k \in (i + 1)..Len(a) : a[k] = b[k]
  THEN 1 ELSE -1

\* what limb j of b adds to column k of a * b: the low half of its product
\* with limb k + 1 - j of a and the high half of its product with the limb
\* below
BMulPart(a, b, k, j) ==
  ((BLimb(a, k + 1 - j) * BLimb(b, j)) % LimbBase)
  + ((BLimb(a, k - j) * BLimb(b, j)) \div LimbBase)

\* column k of a * b for b of at most four limbs: below 8 * LimbBase
BMulColumn(a, b, k) ==
  BMulPart(a, b, k, 1) + BMulPart(a, b, k, 2) + BMulPart(a, b, k, 3) + BMulPart(a, b, k, 4)

\* a * b for b of at most four limbs, which a mantissa is: the low halves of
\* the columns plus their high halves
BMul(a, b) ==
  IF Len(a) = 0 \/ Len(b) = 0 THEN <<>>
  ELSE BAddLonger([k \in 1..(Len(a) + Len(b)) |-> BMulColumn(a, b, k) % LimbBase] \o <<>>,
                  <<0>> \o [k \in 1..(Len(a) + Len(b) - 1) |-> BMulColumn(a, b, k) \div LimbBase])

\* a * d for a limb d: the low halves of the products plus their high halves
BMulSmall(a, d) ==
  IF d = 0 \/ Len(a) = 0 THEN <<>>
  ELSE BAddLonger(<<0>> \o [i \in 1..Len(a) |-> (a[i] * d) \div LimbBase],
                  [i \in 1..Len(a) |-> (a[i] * d) % LimbBase] \o <<>>)

\* a * 2^(LimbBits * q + r) for r < LimbBits
BShlBy(a, q, r) ==
  IF Len(a) = 0 THEN <<>>
  ELSE BOfLimbs([i \in 1..(Len(a) + q + 1) |->
         ((BLimb(a, i - q) * 2^r) % LimbBase) + ((BLimb(a, i - q - 1) * 2^r) \div LimbBase)])

\* a * 2^k
BShl(a, k) == BShlBy(a, k \div LimbBits, k % LimbBits)

\* floor(a / 2^(LimbBits * q + r)) for r < LimbBits
BShrBy(a, q, r) ==
  IF Len(a) <= q THEN <<>>
  ELSE BOfLimbs([i \in 1..(Len(a) - q) |->
         (a[i + q] \div 2^r) + (BLimb(a, i + q + 1) % 2^r) * 2^(LimbBits - r)])

\* floor(a / 2^k)
BShr(a, k) == BShrBy(a, k \div LimbBits, k % LimbBits)

\* the number of bits of a limb
IntBitLen(n) == Cardinality({k \in 0..(LimbBits - 1) : 2^k <= n})

BBitLen(a) == IF Len(a) = 0 THEN 0 ELSE (Len(a) - 1) * LimbBits + IntBitLen(a[Len(a)])

\* the number of zero bits below the lowest set bit of a limb n > 0
IntTrailingZeros(n) == Cardinality({k \in 1..(LimbBits - 1) : n % 2^k = 0})

BTrailingZerosAt(a, i) == (i - 1) * LimbBits + IntTrailingZeros(a[i])

\* the same of a number a > 0
BTrailingZeros(a) ==
  BTrailingZerosAt(a, CHOOSE i \in 1..Len(a) : a[i] # 0 /\ \A j \in 1..(i - 1) : a[j] = 0)

BIsOdd(a) == Len(a) > 0 /\ a[1] % 2 = 1

\* bit i of a, bit 0 being the lowest
BBit(a, i) == (BLimb(a, i \div LimbBits + 1) \div 2^(i % LimbBits)) % 2

\* whether q * d <= cur
BFits(cur, d, q) == BCmp(BMulSmall(d, q), cur) <= 0

\* the largest q with q * d <= cur, from an estimate qhat that is at most 2
\* too large
BQuotDigitFrom(cur, d, qhat) ==
  IF BFits(cur, d, qhat) THEN qhat ELSE IF BFits(cur, d, qhat - 1) THEN qhat - 1 ELSE qhat - 2

BAtMost(est, max) == IF est > max THEN max ELSE est

\* floor(cur / d) for cur < d * LimbBase, the top limb of d being at least
\* LimbBase / 2: the estimate is made from the leading limbs
BQuotDigit(cur, d) ==
  BQuotDigitFrom(cur, d,
    BAtMost((BLimb(cur, Len(d) + 1) * LimbBase + BLimb(cur, Len(d))) \div d[Len(d)],
            LimbBase - 1))

\* long division of the limbs num[1..i] brought down onto the remainder rem,
\* q being the quotient of the limbs above: <<quotient, remainder>>
RECURSIVE BDivFrom(_, _, _, _, _)
BDivTake(num, d, i, cur, q, qd) ==
  IF qd = 0 THEN BDivFrom(num, d, i - 1, cur, <<0>> \o q)
  ELSE BDivFrom(num, d, i - 1, BSub(cur, BMulSmall(d, qd)), <<qd>> \o q)

BDivFrom(num, d, i, rem, q) ==
  IF i = 0 THEN <<BStrip(q), rem>>
  ELSE BDivTake(num, d, i, BStrip(<<num[i]>> \o rem), q,
                BQuotDigit(BStrip(<<num[i]>> \o rem), d))

\* the leading limbs of num that are fewer than the limbs of d need no division
BDivLimbs(num, d) ==
  IF Len(num) < Len(d) THEN <<<<>>, num>>
  ELSE BDivFrom(num, d, Len(num) - Len(d) + 1,
                BStrip(SubSeq(num, Len(num) - Len(d) + 2, Len(num))), <<>>)

BDivNormalized(a, d, k) == BDivLimbs(BShl(a, k), BShl(d, k))

\* <<floor(a / d), r>> with r = <<>> exactly when d divides a (d # <<>>)
BDivMod(a, d) == BDivNormalized(a, d, LimbBits - IntBitLen(d[Len(d)]))

(***************************************************************************)
(* JavaScript values: numbers (binary64), NaN, Infinity, undefined, null   *)
(***************************************************************************)
Num(neg, m, e) == [k |-> "num", neg |-> neg, m |-> m, e |-> e]
Zero == Num(FALSE, <<>>, 0)
NaN == [k |-> "nan", neg |-> FALSE, m |-> <<>>, e |-> 0]
Undefined == [k |-> "undefined", neg |-> FALSE, m |-> <<>>, e |-> 0]
Null == [k |-> "null", neg |-> FALSE, m |-> <<>>, e |-> 0]
Infinity(neg) == [k |-> "inf", neg |-> neg, m |-> <<>>, e |-> 0]

IsNum(v) == v.k = "num"
IsZero(v) == v.k = "num" /\ v.m = <<>>

\* sign * M * 2^e for M # <<>> of at most MantissaBits bits: M made odd
MkShifted(neg, M, e, tz) == Num(neg, BShr(M, tz), e + tz)
MkOdd(neg, M, e) == MkShifted(neg, M, e, BTrailingZeros(M))

\* M cut to q0 = floor(M / 2^sh): q0 goes up when the bits cut off are more
\* than half a unit, or exactly half and q0 is odd; they are at least half a
\* unit when bit sh - 1 of M is set, and exactly half when that is the lowest
\* bit set
MkUp(neg, M, e, sh, q0) ==
  MkOdd(neg,
        IF sh > 0 /\ BBit(M, sh - 1) = 1 /\ (BTrailingZeros(M) < sh - 1 \/ BIsOdd(q0))
        THEN BAdd(q0, <<1>>) ELSE q0,
        e + sh)

MkRound(neg, M, e, sh) == MkUp(neg, M, e, sh, BShr(M, sh))

\* sign * M * 2^e rounded to the nearest binary64, ties to even
Mk(neg, M, e) ==
  IF M = <<>> THEN Zero
  ELSE MkRound(neg, M, e, IF BBitLen(M) > MantissaBits THEN BBitLen(M) - MantissaBits ELSE 0)

\* the integer n (below 2^31, hence exact) as a number
FInt(n) ==
  IF n = 0 THEN Zero ELSE MkOdd(n < 0, BFromInt(IF n < 0 THEN -n ELSE n), 0)

\* ToNumber: undefined is NaN, null is 0
ToNumber(v) == IF v.k = "undefined" THEN NaN ELSE IF v.k = "null" THEN Zero ELSE v

FMulNum(a, b) == Mk(a.neg # b.neg, BMul(a.m, b.m), a.e + b.e)

\* the quotient of a.m * 2^s by b.m and one more bit, 1 when the division
\* left a remainder, rounded
FDivRounded(a, b, s, qr) ==
  IF Len(qr[2]) = 0 THEN Mk(a.neg # b.neg, BShl(qr[1], 1), a.e - b.e - s - 1)
  ELSE Mk(a.neg # b.neg, BAdd(BShl(qr[1], 1), <<1>>), a.e - b.e - s - 1)

FDivShifted(a, b, s) == FDivRounded(a, b, s, BDivMod(BShl(a.m, s), b.m))

\* the shift that gives a quotient of MantissaBits + 2 bits or more
FDivShift(la, lb) ==
  IF MantissaBits + 3 + lb - la > 0 THEN MantissaBits + 3 + lb - la ELSE 0

FDivNum(a, b) ==
  IF a.m = <<>> THEN Zero ELSE FDivShifted(a, b, FDivShift(BBitLen(a.m), BBitLen(b.m)))

\* magnitudes of two numbers over their common exponent
AlignA(a, b) == BShl(a.m, a.e - (IF a.e < b.e THEN a.e ELSE b.e))
AlignB(a, b) == BShl(b.m, b.e - (IF a.e < b.e THEN a.e ELSE b.e))

\* the sum of two finite non-zero numbers whose aligned magnitudes are ma, mb
FAddAligned(a, b, ma, mb, c) ==
  Mk(IF c >= 0 THEN a.neg ELSE b.neg,
     IF a.neg = b.neg THEN BAdd(ma, mb) ELSE IF c >= 0 THEN BSub(ma, mb) ELSE BSub(mb, ma),
     IF a.e < b.e THEN a.e ELSE b.e)

FAddMagnitudes(a, b, ma, mb) == FAddAligned(a, b, ma, mb, BCmp(ma, mb))

FAddNum(a, b) ==
  IF a.m = <<>> THEN b
  ELSE IF b.m = <<>> THEN a
  ELSE FAddMagnitudes(a, b, AlignA(a, b), AlignB(a, b))

FNeg(a) == IF a.k \in {"num", "inf"} /\ a.m # <<>> THEN [a EXCEPT !.neg = ~a.neg]
           ELSE IF a.k = "inf" THEN Infinity(~a.neg) ELSE a

\* -1, 0, 1 for two finite numbers
FCmpNum(a, b) ==
  IF a.m = <<>> /\ b.m = <<>> THEN 0
  ELSE IF a.m = <<>> THEN (IF b.neg THEN 1 ELSE -1)
  ELSE IF b.m = <<>> THEN (IF a.neg THEN -1 ELSE 1)
  ELSE IF a.neg /\ ~b.neg THEN -1
  ELSE IF ~a.neg /\ b.neg THEN 1
  ELSE (IF a.neg THEN -1 ELSE 1) * BCmp(AlignA(a, b), AlignB(a, b))

\* -1, 0, 1, or 2 when either side is NaN (every comparison is then false)
JCmpNumbers(a, b) ==
  IF a.k = "nan" \/ b.k = "nan" THEN 2
  ELSE IF a.k = "inf" /\ b.k = "inf" THEN
         (IF a.neg = b.neg THEN 0 ELSE IF a.neg THEN -1 ELSE 1)
  ELSE IF a.k = "inf" THEN (IF a.neg THEN -1 ELSE 1)
  ELSE IF b.k = "inf" THEN (IF b.neg THEN 1 ELSE -1)
  ELSE FCmpNum(a, b)

\* two finite numbers are the common case and are looked at first
JCmp(x, y) ==
  IF x.k = "num" /\ y.k = "num" THEN FCmpNum(x, y)
  ELSE JCmpNumbers(ToNumber(x), ToNumber(y))

JLt(x, y) == JCmp(x, y) = -1
JGt(x, y) == JCmp(x, y) = 1
JLe(x, y) == JCmp(x, y) \in {-1, 0}
JGe(x, y) == JCmp(x, y) \in {0, 1}

JMulNumbers(a, b) ==
  IF a.k = "nan" \/ b.k = "nan" THEN NaN
  ELSE IF a.k = "inf" \/ b.k = "inf" THEN
         (IF IsZero(a) \/ IsZero(b) THEN NaN ELSE Infinity(a.neg # b.neg))
  ELSE FMulNum(a, b)

\* x * y
JMul(x, y) ==
  IF x.k = "num" /\ y.k = "num" THEN FMulNum(x, y)
  ELSE JMulNumbers(ToNumber(x), ToNumber(y))

JDivNumbers(a, b) ==
  IF a.k = "nan" \/ b.k = "nan" THEN NaN
  ELSE IF a.k = "inf" THEN (IF b.k = "inf" THEN NaN ELSE Infinity(a.neg # b.neg))
  ELSE IF b.k = "inf" THEN Zero
  ELSE IF IsZero(b) THEN (IF IsZero(a) THEN NaN ELSE Infinity(a.neg # b.neg))
  ELSE FDivNum(a, b)

\* x / y
JDiv(x, y) ==
  IF x.k = "num" /\ y.k = "num" /\ y.m # <<>> THEN FDivNum(x, y)
  ELSE JDivNumbers(ToNumber(x), ToNumber(y))

JAddNumbers(a, b) ==
  IF a.k = "nan" \/ b.k = "nan" THEN NaN
  ELSE IF a.k = "inf" /\ b.k = "inf" THEN (IF a.neg = b.neg THEN a ELSE NaN)
  ELSE IF a.k = "inf" THEN a
  ELSE IF b.k = "inf" THEN b
  ELSE FAddNum(a, b)

\* x + y
JAdd(x, y) ==
  IF x.k = "num" /\ y.k = "num" THEN FAddNum(x, y)
  ELSE JAddNumbers(ToNumber(x), ToNumber(y))

\* x - y
JSub(x, y) ==
  IF x.k = "num" /\ y.k = "num" THEN FAddNum(x, FNeg(y))
  ELSE JAddNumbers(ToNumber(x), FNeg(ToNumber(y)))

\* a decimal literal n / 10^p: the binary64 nearest to it
Dec(n, p) == FDivNum(FInt(n), FInt(10^p))

\* truthiness: 0, NaN, undefined and null are falsy
Truthy(v) == v.k = "inf" \/ (v.k = "num" /\ v.m # <<>>)

\* x || y
JOr(x, y) == IF Truthy(x) THEN x ELSE y

\* the integer part of the magnitude of a finite number
FIntPart(a) == IF a.e >= 0 THEN BShl(a.m, a.e) ELSE BShr(a.m, -a.e)

\* a finite number with a fraction (a.e < 0, a.m odd) against the middle
\* between its integer part and the next whole number: -1 below, 0 on it, 1
\* above
FCmpHalf(a) ==
  IF BBit(a.m, -a.e - 1) = 0 THEN -1 ELSE IF -a.e - 1 > 0 THEN 1 ELSE 0

\* the whole number M (below 2^MantissaBits, hence exact) with a sign
FWholeOf(neg, M) == IF M = <<>> THEN Zero ELSE MkOdd(neg, M, 0)

\* the whole number next to a finite number: its integer part, or one more
\* in magnitude when up
FWhole(a, ip, up) == FWholeOf(a.neg, IF up THEN BAdd(ip, <<1>>) ELSE ip)

FFloor(a) == IF a.k # "num" \/ a.e >= 0 THEN a ELSE FWhole(a, FIntPart(a), a.neg)
FCeil(a) == IF a.k # "num" \/ a.e >= 0 THEN a ELSE FWhole(a, FIntPart(a), ~a.neg)

FRound(a) ==
  IF a.k # "num" \/ a.e >= 0 THEN a
  ELSE FWhole(a, FIntPart(a), IF a.neg THEN FCmpHalf(a) > 0 ELSE FCmpHalf(a) >= 0)

\* Math.floor, Math.ceil, and Math.round: the nearest integer, a tie going up
MathFloor(x) == IF x.k = "num" THEN FFloor(x) ELSE FFloor(ToNumber(x))
MathCeil(x) == IF x.k = "num" THEN FCeil(x) ELSE FCeil(ToNumber(x))
MathRound(x) == IF x.k = "num" THEN FRound(x) ELSE FRound(ToNumber(x))

\* Math.max, Math.min, Math.abs
FMax(a, b) == IF a.k = "nan" \/ b.k = "nan" THEN NaN ELSE IF JCmpNumbers(a, b) = -1 THEN b ELSE a
FMin(a, b) == IF a.k = "nan" \/ b.k = "nan" THEN NaN ELSE IF JCmpNumbers(b, a) = -1 THEN b ELSE a
FAbs(a) == IF a.k \in {"num", "inf"} THEN [a EXCEPT !.neg = FALSE] ELSE a

MathMax(x, y) ==
  IF x.k = "num" /\ y.k = "num" THEN (IF FCmpNum(x, y) = -1 THEN y ELSE x)
  ELSE FMax(ToNumber(x), ToNumber(y))
MathMin(x, y) ==
  IF x.k = "num" /\ y.k = "num" THEN (IF FCmpNum(y, x) = -1 THEN y ELSE x)
  ELSE FMin(ToNumber(x), ToNumber(y))
MathAbs(x) == IF x.k = "num" THEN [x EXCEPT !.neg = FALSE] ELSE FAbs(ToNumber(x))

\* a whole number small enough for TLC, as an integer
ToInt(a) == (IF a.neg THEN -1 ELSE 1) * BToInt(FIntPart(a))

(***************************************************************************)
(* Constants of the source                                                 *)
(***************************************************************************)
GiB == FInt(1024 * 1024 * 1024)
MiB == FInt(1024 * 1024)
One == FInt(1)
Thousand == FInt(1000)
Hundred == FInt(100)
\* 6.5 = 13 * 2^-1
MaxRatio == Num(FALSE, <<13>>, -1)

NoReason == "null"
MemoryReason == "Memory increased to maintain minimum 1:1 vCPU:GiB ratio"
CpuReason == "CPU increased to maintain maximum 1:6.5 vCPU:GiB ratio"

(***************************************************************************)
(* validateAndAdjustCPUMemoryRatio                                         *)
(***************************************************************************)
\* a plausible slip: the function reports the values it was given
validateAndAdjustCPUMemoryRatio_unchecked(cpuCores, memoryBytes) ==
  [cpu |-> cpuCores, memory |-> memoryBytes, adjusted |-> FALSE, reason |-> NoReason]

\* lines 160-184, currentRatio being memoryGiB / cpuCores
adjustedForRatio(cpuCores, memoryBytes, memoryGiB, currentRatio) ==
  IF JLt(currentRatio, One) THEN
    [cpu |-> cpuCores,
     memory |-> JMul(JMul(JMul(cpuCores, FInt(1024)), FInt(1024)), FInt(1024)),
     adjusted |-> TRUE, reason |-> MemoryReason]
  ELSE IF JGt(currentRatio, MaxRatio) THEN
    [cpu |-> JDiv(memoryGiB, MaxRatio), memory |-> memoryBytes,
     adjusted |-> TRUE, reason |-> CpuReason]
  ELSE [cpu |-> cpuCores, memory |-> memoryBytes, adjusted |-> FALSE,
        reason |-> NoReason]

ratioOfGiB(cpuCores, memoryBytes, memoryGiB) ==
  adjustedForRatio(cpuCores, memoryBytes, memoryGiB, JDiv(memoryGiB, cpuCores))

validateAndAdjustCPUMemoryRatio(cpuCores, memoryBytes) ==
  ratioOfGiB(cpuCores, memoryBytes, JDiv(memoryBytes, GiB))

\* finalRatio, as the function computes it for its log line
finalRatio(r) == JDiv(JDiv(r.memory, GiB), r.cpu)

(***************************************************************************)
(* JavaScript objects and Maps keyed by strings: insertion-ordered entries *)
(***************************************************************************)
EmptyObj == <<>>

ObjHas(o, key) == \E i \in 1..Len(o) : o[i].key = key

\* o[key]: undefined when the key is absent
ObjGet(o, key) ==
  IF ObjHas(o, key) THEN o[CHOOSE i \in 1..Len(o) : o[i].key = key].val ELSE Undefined

\* o[key] = val: an existing key keeps its place
ObjSet(o, key, val) ==
  IF ObjHas(o, key)
  THEN [i \in 1..Len(o) |-> IF o[i].key = key THEN [key |-> key, val |-> val] ELSE o[i]]
  ELSE Append(o, [key |-> key, val |-> val])

ObjKeys(o) == [i \in 1..Len(o) |-> o[i].key]
ObjValues(o) == [i \in 1..Len(o) |-> o[i].val]

\* values.reduce((sum, val) => sum + val, 0)
RECURSIVE SumFrom(_, _, _)
SumFrom(vals, i, acc) ==
  IF acc.k = "nan" \/ i > Len(vals) THEN acc ELSE SumFrom(vals, i + 1, JAdd(acc, vals[i]))

ReduceSum(vals) == SumFrom(vals, 1, Zero)

(***************************************************************************)
(* JSON.parse(JSON.stringify(x)): what a cached value reads back as        *)
(***************************************************************************)
\* NaN and Infinity are written as null
JSONValue(v) == IF v.k \in {"nan", "inf"} THEN Null ELSE v

\* a property whose value is undefined is not written at all
JSONObj(o) ==
  LET kept == SelectSeq(o, LAMBDA en : en.val.k # "undefined")
  IN [i \in 1..Len(kept) |-> [key |-> kept[i].key, val |-> JSONValue(kept[i].val)]]

JSONPoint(pt) == [seconds |-> pt.seconds, value |-> JSONValue(pt.value)]

JSONSeries(ts) ==
  [i \in 1..Len(ts) |->
     [ts[i] EXCEPT !.points = [j \in 1..Len(ts[i].points) |-> JSONPoint(ts[i].points[j])]]]

(***************************************************************************)
(* Time series: a response of listTimeSeries is a sequence of series, each *)
(* with its labels ("" when a label is missing) and its points; a point    *)
(* has interval.endTime.seconds (0 when missing) and value.doubleValue     *)
(* (undefined when missing).                                               *)
(***************************************************************************)
Point(seconds, value) == [seconds |-> seconds, value |-> value]

Series(container, pod, controllerType, points) ==
  [resourceContainer |-> container, metricContainer |-> container, pod |-> pod,
   controllerType |-> controllerType, points |-> points]

\* every (series, point) of a response in iteration order
RECURSIVE FlattenFrom(_, _, _)
FlattenFrom(ts, i, label) ==
  IF i > Len(ts) THEN <<>>
  ELSE [j \in 1..Len(ts[i].points) |->
          [container |-> IF label = "metric" THEN ts[i].metricContainer
                         ELSE ts[i].resourceContainer,
           seconds |-> ts[i].points[j].seconds,
           value |-> ts[i].points[j].value]]
       \o FlattenFrom(ts, i + 1, label)

\* the Map of the latest defined value per container:
\*   if (value !== undefined) { if (!existing || timestamp > existing.timestamp) set }
RECURSIVE LatestPerContainer(_, _, _)
LatestPerContainer(pts, i, acc) ==
  IF i > Len(pts) THEN acc
  ELSE LET pt == pts[i]
           name == IF pt.container = "" THEN "unknown" ELSE pt.container
           existing == ObjGet(acc, name)
           take == pt.value.k # "undefined"
                   /\ (~ObjHas(acc, name) \/ pt.seconds > existing.timestamp)
       IN LatestPerContainer(pts, i + 1,
            IF take THEN ObjSet(acc, name, [value |-> pt.value, timestamp |-> pt.seconds])
            ELSE acc)

\* a plausible slip: the last point visited wins, whatever its timestamp
extractPerContainerValues_lastVisited(timeSeries, metricType) ==
  LET pts == SelectSeq(FlattenFrom(timeSeries, 1, "resource"),
                       LAMBDA pt : pt.value.k # "undefined")
      names == LatestPerContainer(pts, 1, <<>>)
      lastOf(name) ==
        pts[CHOOSE i \in 1..Len(pts) :
              /\ (IF pts[i].container = "" THEN "unknown" ELSE pts[i].container) = name
              /\ \A j \in (i + 1)..Len(pts) :
                   (IF pts[j].container = "" THEN "unknown" ELSE pts[j].container) # name]
  IN [i \in 1..Len(names) |->
        [key |-> names[i].key,
         val |-> IF metricType = "cpu"
                 THEN MathRound(JMul(lastOf(names[i].key).value, Thousand))
                 ELSE MathRound(lastOf(names[i].key).value)]]

extractPerContainerValues(timeSeries, metricType) ==
  LET containerValues == LatestPerContainer(FlattenFrom(timeSeries, 1, "resource"), 1, <<>>)
  IN [i \in 1..Len(containerValues) |->
        [key |-> containerValues[i].key,
         val |-> IF metricType = "cpu"
                 THEN MathRound(JMul(containerValues[i].val.value, Thousand))
                 ELSE MathRound(containerValues[i].val.value)]]

extractPerContainerRecommendations(timeSeries) ==
  LET containerRecommendations ==
        LatestPerContainer(FlattenFrom(timeSeries, 1, "metric"), 1, <<>>)
  IN [i \in 1..Len(containerRecommendations) |->
        [key |-> containerRecommendations[i].key,
         val |-> containerRecommendations[i].val.value]]

extractLatestRecommendation(timeSeries) ==
  LET perContainer == extractPerContainerRecommendations(timeSeries)
  IN IF Len(perContainer) = 0 THEN Null ELSE ReduceSum(ObjValues(perContainer))

(***************************************************************************)
(* getResourceRequestsFromMonitoring, after its two reads                  *)
(***************************************************************************)
\* one round of the forEach over Object.keys(cpuPerContainer) of lines
\* 446-462 and 721-736, when both values are truthy
adjustedContainer(acc, containerName, scale, validation) ==
  [cpu |-> ObjSet(acc.cpu, containerName, JMul(validation.cpu, scale)),
   memory |-> ObjSet(acc.memory, containerName, validation.memory),
   adjustments |-> IF validation.adjusted
                   THEN ObjSet(acc.adjustments, containerName, validation.reason)
                   ELSE acc.adjustments]

\* scale is 1000 for requests (millicores) and 1 for recommendations (cores)
adjustContainer(acc, containerName, containerCpu, containerMemory, scale) ==
  IF Truthy(containerCpu) /\ Truthy(containerMemory)
  THEN adjustedContainer(acc, containerName, scale,
         validateAndAdjustCPUMemoryRatio(JDiv(containerCpu, scale), containerMemory))
  ELSE [cpu |-> ObjSet(acc.cpu, containerName, containerCpu),
        memory |-> ObjSet(acc.memory, containerName, containerMemory),
        adjustments |-> acc.adjustments]

RECURSIVE AdjustPerContainer(_, _, _, _, _)
AdjustPerContainer(cpuPerContainer, memoryPerContainer, scale, i, acc) ==
  IF i > Len(cpuPerContainer) THEN acc
  ELSE AdjustPerContainer(cpuPerContainer, memoryPerContainer, scale, i + 1,
         adjustContainer(acc, cpuPerContainer[i].key, cpuPerContainer[i].val,
                         ObjGet(memoryPerContainer, cpuPerContainer[i].key), scale))

NoAdjustments == [cpu |-> EmptyObj, memory |-> EmptyObj, adjustments |-> EmptyObj]

\* lines 481-490
resourceRequestsFrom(adj, cpuRequest, memoryRequest, reason) ==
  [cpuRequest |-> cpuRequest, memoryRequest |-> memoryRequest,
   cpuPerContainer |-> adj.cpu, memoryPerContainer |-> adj.memory,
   ratioAdjustments |-> [total |-> reason, perContainer |-> adj.adjustments]]

\* lines 469-479
requestsValidated(adj, totalValidation) ==
  resourceRequestsFrom(adj, JMul(totalValidation.cpu, Thousand), totalValidation.memory,
                       totalValidation.reason)

requestsTotalled(adj, totalCpuRequest, totalMemoryRequest) ==
  IF Truthy(totalCpuRequest) /\ Truthy(totalMemoryRequest)
  THEN requestsValidated(adj,
         validateAndAdjustCPUMemoryRatio(JDiv(totalCpuRequest, Thousand), totalMemoryRequest))
  ELSE resourceRequestsFrom(adj, totalCpuRequest, totalMemoryRequest, NoReason)

\* lines 465-466
requestsAdjusted(adj) ==
  requestsTotalled(adj, ReduceSum(ObjValues(adj.cpu)), ReduceSum(ObjValues(adj.memory)))

\* lines 434-490: the value returned when both reads succeeded
resourceRequestsOf(cpuRequestMetrics, memoryRequestMetrics) ==
  requestsAdjusted(
    AdjustPerContainer(extractPerContainerValues(cpuRequestMetrics, "cpu"),
                       extractPerContainerValues(memoryRequestMetrics, "memory"),
                       Thousand, 1, NoAdjustments))

\* lines 491-503: the value returned when a read failed
resourceRequestsOnError ==
  [cpuRequest |-> Zero, memoryRequest |-> Zero,
   cpuPerContainer |-> EmptyObj, memoryPerContainer |-> EmptyObj,
   ratioAdjustments |-> [total |-> NoReason, perContainer |-> EmptyObj]]

(***************************************************************************)
(* getVPARecommendations, after its two reads                              *)
(***************************************************************************)
\* lines 740-748
vpaRecommendationsFrom(adj, cpuValue, memoryValue, available, reason) ==
  [cpu |-> cpuValue, memory |-> memoryValue,
   cpuPerContainer |-> adj.cpu, memoryPerContainer |-> adj.memory,
   available |-> available,
   ratioAdjustments |-> [total |-> reason, perContainer |-> adj.adjustments]]

\* lines 709-714
recommendationsValidated(adj, available, totalValidation) ==
  vpaRecommendationsFrom(adj, totalValidation.cpu, totalValidation.memory, available,
                         totalValidation.reason)

recommendationsTotalled(adj, cpuValue, memoryValue, available) ==
  IF Truthy(cpuValue) /\ Truthy(memoryValue)
  THEN recommendationsValidated(adj, available,
                                validateAndAdjustCPUMemoryRatio(cpuValue, memoryValue))
  ELSE vpaRecommendationsFrom(adj, cpuValue, memoryValue, available, NoReason)

\* lines 695-748: the value returned when both reads succeeded
vpaRecommendationsOf(cpuRecommendations, memoryRecommendations) ==
  recommendationsTotalled(
    AdjustPerContainer(extractPerContainerRecommendations(cpuRecommendations),
                       extractPerContainerRecommendations(memoryRecommendations),
                       One, 1, NoAdjustments),
    extractLatestRecommendation(cpuRecommendations),
    extractLatestRecommendation(memoryRecommendations),
    Len(cpuRecommendations) > 0 \/ Len(memoryRecommendations) > 0)

\* lines 765-769: the value returned when a read failed
vpaRecommendationsOnError ==
  [cpu |-> Null, memory |-> Null,
   cpuPerContainer |-> EmptyObj, memoryPerContainer |-> EmptyObj,
   available |-> FALSE,
   ratioAdjustments |-> [total |-> NoReason, perContainer |-> EmptyObj]]

\* the recommendations as they read back from the cache
JSONRecommendations(r) ==
  [r EXCEPT !.cpu = JSONValue(r.cpu), !.memory = JSONValue(r.memory),
            !.cpuPerContainer = JSONObj(r.cpuPerContainer),
            !.memoryPerContainer = JSONObj(r.memoryPerContainer)]

(***************************************************************************)
(* getRunningReplicaCount and getReplicaCountAlternative, after their reads*)
(***************************************************************************)
RECURSIVE UniquePods(_, _)
UniquePods(ts, i) ==
  IF i > Len(ts) THEN {}
  ELSE (IF ts[i].pod = "" THEN {} ELSE {ts[i].pod}) \cup UniquePods(ts, i + 1)

\* the first controller type found in the series' metadata, else 'Unknown'
RECURSIVE DetectedType(_, _)
DetectedType(ts, i) ==
  IF i > Len(ts) THEN "Unknown"
  ELSE IF ts[i].controllerType # "" THEN ts[i].controllerType
  ELSE DetectedType(ts, i + 1)

\* lines 391-394
replicaAlternativeOf(cpuMetrics) ==
  [count |-> Cardinality(UniquePods(cpuMetrics, 1)), type |-> DetectedType(cpuMetrics, 1)]

\* lines 397-400
replicaAlternativeOnError == [count |-> 0, type |-> "Unknown"]

\* lines 320-339, altResult being consulted only when fewer than 3 pods were found
replicaInfoOf(replicaMetrics, altResult) ==
  LET replicaCount == Cardinality(UniquePods(replicaMetrics, 1))
      workloadType == DetectedType(replicaMetrics, 1)
  IN IF replicaCount < 3 /\ altResult.count > replicaCount
     THEN [count |-> altResult.count,
           type |-> IF altResult.type # "" THEN altResult.type ELSE workloadType]
     ELSE [count |-> IF replicaCount = 0 THEN 1 ELSE replicaCount, type |-> workloadType]

\* lines 342-345
replicaInfoOnError == [count |-> 1, type |-> "Unknown"]

(***************************************************************************)
(* Scoring helpers of the metrics handler                                  *)
(***************************************************************************)
\* 16 * mebibyte and 128 * 1024 * 1024: products of integers, exact
SixteenMiB == FInt(16 * 1024 * 1024)
DefaultCpuRequest == FInt(100)
DefaultMemoryRequest == FInt(128 * 1024 * 1024)

\* a plausible slip: always up to the next multiple, a multiple included
RoundUpTo10m_next(x) ==
  MathMax(FInt(10), JMul(JAdd(MathFloor(JDiv(x, FInt(10))), One), FInt(10)))

\* Math.max(10, Math.ceil(x / 10) * 10)
RoundUpTo10m(x) == MathMax(FInt(10), JMul(MathCeil(JDiv(x, FInt(10))), FInt(10)))

\* Math.max(16 * mebibyte, Math.ceil(x / (16 * mebibyte)) * (16 * mebibyte))
RoundUpTo16Mi(x) == MathMax(SixteenMiB, JMul(MathCeil(JDiv(x, SixteenMiB)), SixteenMiB))

calculateCurrentUsage(timeSeries) ==
  IF Len(timeSeries) = 0 THEN Zero
  ELSE IF Len(timeSeries[1].points) = 0 THEN Zero
  ELSE JOr(timeSeries[1].points[1].value, Zero)

\* the truthy point values of a response, in iteration order
RECURSIVE TruthyValues(_, _)
TruthyValues(timeSeries, i) ==
  IF i > Len(timeSeries) THEN <<>>
  ELSE SelectSeq([j \in 1..Len(timeSeries[i].points) |-> timeSeries[i].points[j].value],
                 Truthy)
       \o TruthyValues(timeSeries, i + 1)

\* values.sort((a, b) => a - b)
RECURSIVE SortAscending(_)
SortInto(rest, v) ==
  SelectSeq(rest, LAMBDA x : JLt(x, v)) \o <<v>> \o SelectSeq(rest, LAMBDA x : ~JLt(x, v))

SortAscending(values) ==
  IF Len(values) <= 1 THEN values ELSE SortInto(SortAscending(Tail(values)), Head(values))

\* Math.max(...values)
RECURSIVE MaxOf(_)
MaxOf(values) ==
  IF Len(values) = 1 THEN values[1] ELSE MathMax(values[1], MaxOf(Tail(values)))

\* a plausible slip: the CPU recommendation is taken from the maximum
recommendationFrom_max(values, metricType, currentRequest) ==
  IF Len(values) = 0
  THEN JOr(currentRequest, IF metricType = "cpu" THEN FInt(10) ELSE SixteenMiB)
  ELSE IF metricType = "cpu"
  THEN RoundUpTo10m(JMul(JMul(MaxOf(values), Dec(115, 2)), Thousand))
  ELSE RoundUpTo16Mi(JMul(MaxOf(values), Dec(12, 1)))

\* a plausible slip: without usage the floor default, whatever the request
recommendationFrom_floorOnly(values, metricType, currentRequest) ==
  IF Len(values) = 0
  THEN (IF metricType = "cpu" THEN FInt(10) ELSE SixteenMiB)
  ELSE IF metricType = "cpu"
  THEN RoundUpTo10m(
         JMul(JMul(values[ToInt(MathFloor(JMul(FInt(Len(values)), Dec(9, 1)))) + 1],
                   Dec(115, 2)),
              Thousand))
  ELSE RoundUpTo16Mi(JMul(MaxOf(values), Dec(12, 1)))

\* lines 1215-1240, values being sorted
recommendationFrom(values, metricType, currentRequest) ==
  IF Len(values) = 0
  THEN JOr(currentRequest, IF metricType = "cpu" THEN FInt(10) ELSE SixteenMiB)
  ELSE IF metricType = "cpu"
  THEN RoundUpTo10m(
         JMul(JMul(values[ToInt(MathFloor(JMul(FInt(Len(values)), Dec(9, 1)))) + 1],
                   Dec(115, 2)),
              Thousand))
  ELSE RoundUpTo16Mi(JMul(MaxOf(values), Dec(12, 1)))

calculateRecommendation(timeSeries, metricType, currentRequest) ==
  IF Len(timeSeries) = 0
  THEN JOr(currentRequest, IF metricType = "cpu" THEN FInt(10) ELSE SixteenMiB)
  ELSE recommendationFrom(SortAscending(TruthyValues(timeSeries, 1)), metricType,
                          currentRequest)

getRecommendedCPU(vpaRecommendations, cpuTimeSeries, currentRequest) ==
  IF vpaRecommendations.available /\ vpaRecommendations.cpu.k # "null"
  THEN RoundUpTo10m(MathRound(JMul(vpaRecommendations.cpu, Thousand)))
  ELSE calculateRecommendation(cpuTimeSeries, "cpu", currentRequest)

getRecommendedMemory(vpaRecommendations, memoryTimeSeries, currentRequest) ==
  IF vpaRecommendations.available /\ vpaRecommendations.memory.k # "null"
  THEN RoundUpTo16Mi(MathRound(vpaRecommendations.memory))
  ELSE calculateRecommendation(memoryTimeSeries, "memory", currentRequest)

\* a plausible slip: the two efficiencies are not capped at 100
calculateEfficiency_uncapped(cpuSeries, memorySeries, resources) ==
  MathRound(JDiv(
    JAdd(JMul(JDiv(JMul(calculateCurrentUsage(cpuSeries), Thousand),
                   JOr(resources.requests.cpu, DefaultCpuRequest)), Hundred),
         JMul(JDiv(calculateCurrentUsage(memorySeries),
                   JOr(resources.requests.memory, DefaultMemoryRequest)), Hundred)),
    FInt(2)))

calculateEfficiency(cpuSeries, memorySeries, resources) ==
  LET cpuUsage == calculateCurrentUsage(cpuSeries)
      memoryUsage == calculateCurrentUsage(memorySeries)
      cpuRequest == JOr(resources.requests.cpu, DefaultCpuRequest)
      memoryRequest == JOr(resources.requests.memory, DefaultMemoryRequest)
      cpuEfficiency ==
        IF JGt(cpuRequest, Zero)
        THEN MathMin(Hundred, JMul(JDiv(JMul(cpuUsage, Thousand), cpuRequest), Hundred))
        ELSE Hundred
      memoryEfficiency ==
        IF JGt(memoryRequest, Zero)
        THEN MathMin(Hundred, JMul(JDiv(memoryUsage, memoryRequest), Hundred))
        ELSE Hundred
  IN MathRound(JDiv(JAdd(cpuEfficiency, memoryEfficiency), FInt(2)))

cpuCostPerHour == Dec(31611, 6)
memoryCostPerHour == Dec(4237, 6)

calculateCost(resources, replicas) ==
  LET cpuCores == JDiv(JOr(resources.requests.cpu, DefaultCpuRequest), Thousand)
      memoryGB == JDiv(JOr(resources.requests.memory, DefaultMemoryRequest), GiB)
      hourlyCost == JMul(JAdd(JMul(cpuCores, cpuCostPerHour),
                              JMul(memoryGB, memoryCostPerHour)), replicas)
      monthlyCost == JMul(JMul(hourlyCost, FInt(24)), FInt(30))
  IN JDiv(MathRound(JMul(monthlyCost, Hundred)), Hundred)

\* the requests the optimized cost is computed from (lines 1277-1294)
optimizedResources(vpaRecommendations, resources) ==
  IF vpaRecommendations.available
  THEN [requests |->
          [cpu |-> IF Truthy(vpaRecommendations.cpu)
                   THEN MathRound(JMul(vpaRecommendations.cpu, Thousand))
                   ELSE JOr(resources.requests.cpu, DefaultCpuRequest),
           memory |-> IF Truthy(vpaRecommendations.memory)
                      THEN MathRound(vpaRecommendations.memory)
                      ELSE JOr(resources.requests.memory, DefaultMemoryRequest)]]
  ELSE [requests |-> [cpu |-> JOr(resources.requests.cpu, DefaultCpuRequest),
                      memory |-> JOr(resources.requests.memory, DefaultMemoryRequest)]]

\* a plausible slip: the savings are not clamped at 0
calculatePotentialSavingsWithVPA_unclamped(vpaRecommendations, resources) ==
  JDiv(MathRound(JMul(
         JSub(calculateCost(resources, One),
              calculateCost(optimizedResources(vpaRecommendations, resources), One)),
         Hundred)),
       Hundred)

calculatePotentialSavingsWithVPA(vpaRecommendations, resources) ==
  LET currentCost == calculateCost(resources, One)
      optimizedCost == calculateCost(optimizedResources(vpaRecommendations, resources), One)
      savings == MathMax(Zero, JSub(currentCost, optimizedCost))
  IN JDiv(MathRound(JMul(savings, Hundred)), Hundred)

(***************************************************************************)
(* generateRecommendationsWithVPA.  A line of text is kept as its template *)
(* (tag) and the values the template interpolates: a container name and up *)
(* to two numbers, so that two lines are equal exactly when their texts    *)
(* are.                                                                    *)
(***************************************************************************)
Line(tag, name, a, b) == [tag |-> tag, name |-> name, a |-> a, b |-> b]
Text(tag) == Line(tag, "", Undefined, Undefined)

\* rec[name] of a record: undefined when the record has no such property
Property(rec, name) == IF name \in DOMAIN rec THEN rec[name] ELSE "undefined"

\* a string-or-null-or-undefined property in a condition
TruthyString(v) == v \notin {"undefined", "null", ""}

\* Object.entries(perContainer) mapped through a rounding
RoundedCpuPerContainer(cpuPerContainer) ==
  [i \in 1..Len(cpuPerContainer) |->
     [key |-> cpuPerContainer[i].key,
      val |-> RoundUpTo10m(MathRound(JMul(cpuPerContainer[i].val, Thousand)))]]

RoundedMemoryPerContainer(memoryPerContainer) ==
  [i \in 1..Len(memoryPerContainer) |->
     [key |-> memoryPerContainer[i].key, val |-> RoundUpTo16Mi(memoryPerContainer[i].val)]]

\* lines 1341-1344 and 1351-1360
totalsKept(totalRoundedCpuMillicores, totalRoundedMemoryBytes) ==
  [cpu |-> totalRoundedCpuMillicores, memory |-> totalRoundedMemoryBytes,
   ratioAdjustmentMade |-> FALSE]

totalsValidated(totalRoundedCpuMillicores, totalRoundedMemoryBytes, ratioValidation) ==
  IF TruthyString(Property(ratioValidation, "adjustmentReason"))
  THEN [cpu |-> RoundUpTo10m(MathRound(JMul(ratioValidation.cpu, Thousand))),
        memory |-> RoundUpTo16Mi(ratioValidation.memory),
        ratioAdjustmentMade |-> TRUE]
  ELSE totalsKept(totalRoundedCpuMillicores, totalRoundedMemoryBytes)

\* lines 1341-1361: the totals after the second ratio pass, whose result is
\* read as ratioValidation.adjustmentReason
finalTotals(totalRoundedCpuMillicores, totalRoundedMemoryBytes) ==
  IF JGt(totalRoundedCpuMillicores, Zero) /\ JGt(totalRoundedMemoryBytes, Zero)
  THEN totalsValidated(totalRoundedCpuMillicores, totalRoundedMemoryBytes,
         validateAndAdjustCPUMemoryRatio(JDiv(totalRoundedCpuMillicores, Thousand),
                                         totalRoundedMemoryBytes))
  ELSE totalsKept(totalRoundedCpuMillicores, totalRoundedMemoryBytes)

\* `Suggests ${action} total ... by ${percent}%`, when the difference exceeds 20%
suggestionFor(tag, difference) ==
  IF JGt(MathAbs(difference), FInt(20))
  THEN <<Line(tag, IF JGt(difference, Zero) THEN "increase" ELSE "reduce",
              MathRound(MathAbs(difference)), Undefined)>>
  ELSE <<>>

SuggestLine(tag, final, current) ==
  suggestionFor(tag, JMul(JDiv(JSub(final, current), current), Hundred))

\* lines 1364-1410
recommendationLines(vpaRecommendations, currentCpuRequest, currentMemoryRequest, roundedCpuPerContainer, roundedMemoryPerContainer, final) ==
  (IF Len(roundedCpuPerContainer) > 0
   THEN <<Text("CPU Recommendations by Container:")>>
        \o [i \in 1..Len(roundedCpuPerContainer) |->
              Line("<name>: <a>m CPU", roundedCpuPerContainer[i].key,
                   roundedCpuPerContainer[i].val, Undefined)]
        \o <<Line("Total recommended: <a>m (current: <b>m)", "",
                  final.cpu, currentCpuRequest)>>
   ELSE <<>>)
  \o
  (IF Len(roundedMemoryPerContainer) > 0
   THEN <<Text("Memory Recommendations by Container:")>>
        \o [i \in 1..Len(roundedMemoryPerContainer) |->
              Line("<name>: <a>Mi memory", roundedMemoryPerContainer[i].key,
                   MathRound(JDiv(roundedMemoryPerContainer[i].val, MiB)), Undefined)]
        \o <<Line("Total recommended: <a>Mi (current: <b>Mi)", "",
                  MathRound(JDiv(final.memory, MiB)),
                  MathRound(JDiv(currentMemoryRequest, MiB)))>>
   ELSE <<>>)
  \o
  (IF vpaRecommendations.cpu.k # "null"
   THEN SuggestLine("Suggests <name> total CPU by <a>%", final.cpu, currentCpuRequest)
   ELSE <<>>)
  \o
  (IF vpaRecommendations.memory.k # "null"
   THEN SuggestLine("Suggests <name> total memory by <a>%", final.memory,
                    currentMemoryRequest)
   ELSE <<>>)
  \o
  (IF TruthyString(vpaRecommendations.ratioAdjustments.total)
      \/ Len(vpaRecommendations.ratioAdjustments.perContainer) > 0
      \/ final.ratioAdjustmentMade
   THEN <<Text("Note: CPU:Memory ratio validation applied (Between 1:1 and 1:6.5)")>>
   ELSE <<>>)
  \o
  (IF vpaRecommendations.cpu.k = "null" /\ vpaRecommendations.memory.k = "null"
   THEN <<Text("VPA recommendations not yet available - allow more time for VPA to collect data")>>
   ELSE <<>>)

\* lines 1315-1339
recommendationsRounded(vpaRecommendations, resources, roundedCpuPerContainer, roundedMemoryPerContainer) ==
  recommendationLines(vpaRecommendations,
                      JOr(resources.requests.cpu, DefaultCpuRequest),
                      JOr(resources.requests.memory, DefaultMemoryRequest),
                      roundedCpuPerContainer, roundedMemoryPerContainer,
                      finalTotals(ReduceSum(ObjValues(roundedCpuPerContainer)),
                                  ReduceSum(ObjValues(roundedMemoryPerContainer))))

\* lines 1306-1410
recommendationsWithVPA(vpaRecommendations, resources) ==
  recommendationsRounded(vpaRecommendations, resources,
                         RoundedCpuPerContainer(vpaRecommendations.cpuPerContainer),
                         RoundedMemoryPerContainer(vpaRecommendations.memoryPerContainer))

\* lines 1420-1424 and 1428-1432
utilizationLine(utilization, low, high) ==
  IF JLt(utilization, Dec(3, 1)) THEN <<Text(low)>>
  ELSE IF JGt(utilization, Dec(8, 1)) THEN <<Text(high)>>
  ELSE <<>>

\* lines 1434-1438
usageLines(lines) ==
  (IF Len(lines) = 0
   THEN <<Text("Resources appear well optimized based on usage patterns")>>
   ELSE lines)
  \o <<Text("Enable VPA for ML-based per-container recommendations")>>

\* lines 1411-1440
recommendationsWithoutVPA(cpuSeries, memorySeries, resources) ==
  LET cpuUsage == calculateCurrentUsage(cpuSeries)
      memoryUsage == calculateCurrentUsage(memorySeries)
      cpuRequest == JOr(resources.requests.cpu, DefaultCpuRequest)
      memoryRequest == JOr(resources.requests.memory, DefaultMemoryRequest)
      cpuUtilization == IF JGt(cpuRequest, Zero)
                        THEN JDiv(JMul(cpuUsage, Thousand), cpuRequest) ELSE Zero
      memoryUtilization == IF JGt(memoryRequest, Zero)
                           THEN JDiv(memoryUsage, memoryRequest) ELSE Zero
  IN usageLines(
       utilizationLine(cpuUtilization,
                       "Consider reducing CPU request - low utilization detected",
                       "Consider increasing CPU request - high utilization detected")
       \o utilizationLine(memoryUtilization,
                          "Consider reducing memory request - low utilization detected",
                          "Consider increasing memory request - high utilization detected"))

generateRecommendationsWithVPA(vpaRecommendations, cpuSeries, memorySeries, resources) ==
  IF vpaRecommendations.available
  THEN recommendationsWithVPA(vpaRecommendations, resources)
  ELSE recommendationsWithoutVPA(cpuSeries, memorySeries, resources)

(***************************************************************************)
(* The per-workload body of the metrics handler, after its reads.  A       *)
(* workload of the request is a record of its name and namespace (strings  *)
(* as sequences of characters, <<>> when missing), its type ("" when       *)
(* missing) and its limits (undefined when missing).                       *)
(***************************************************************************)
Workload(name, namespace, type) ==
  [name |-> name, namespace |-> namespace, type |-> type,
   cpuLimit |-> Undefined, memoryLimit |-> Undefined]

\* lines 1037-1046
resourcesOf(workload, resourceRequests) ==
  [requests |-> [cpu |-> resourceRequests.cpuRequest,
                 memory |-> resourceRequests.memoryRequest],
   limits |-> [cpu |-> JOr(workload.cpuLimit, Zero),
               memory |-> JOr(workload.memoryLimit, Zero)]]

NoVpaDetails ==
  [cpuPerContainer |-> EmptyObj, memoryPerContainer |-> EmptyObj,
   totalCpuRecommended |-> Null, totalMemoryRecommended |-> Null]

\* lines 1049-1098
processedMetricsOf(workload, replicaInfo, resourceRequests, cpuResponse, memoryResponse, vpaRecommendations) ==
  LET resources == resourcesOf(workload, resourceRequests)
  IN [name |-> workload.name,
      namespace |-> workload.namespace,
      type |-> IF replicaInfo.type # "" THEN replicaInfo.type
               ELSE IF workload.type # "" THEN workload.type ELSE "Unknown",
      replicas |-> replicaInfo.count,
      cpuRequest |-> resources.requests.cpu,
      memoryRequest |-> resources.requests.memory,
      cpuLimit |-> resources.limits.cpu,
      memoryLimit |-> resources.limits.memory,
      cpuUsage |-> calculateCurrentUsage(cpuResponse),
      memoryUsage |-> calculateCurrentUsage(memoryResponse),
      recommendedCPU |-> getRecommendedCPU(vpaRecommendations, cpuResponse,
                                           resources.requests.cpu),
      recommendedMemory |-> getRecommendedMemory(vpaRecommendations, memoryResponse,
                                                 resources.requests.memory),
      efficiency |-> calculateEfficiency(cpuResponse, memoryResponse, resources),
      cost |-> calculateCost(resources, FInt(replicaInfo.count)),
      potentialSavings |-> calculatePotentialSavingsWithVPA(vpaRecommendations, resources),
      status |-> "running",
      recommendations |-> generateRecommendationsWithVPA(vpaRecommendations, cpuResponse,
                                                         memoryResponse, resources),
      platform |-> "gke",
      vpaEnabled |-> vpaRecommendations.available,
      hasVpaDetails |-> vpaRecommendations.available,
      vpaDetails |-> IF vpaRecommendations.available
                     THEN [cpuPerContainer |-> vpaRecommendations.cpuPerContainer,
                           memoryPerContainer |-> vpaRecommendations.memoryPerContainer,
                           totalCpuRecommended |-> vpaRecommendations.cpu,
                           totalMemoryRecommended |-> vpaRecommendations.memory]
                     ELSE NoVpaDetails,
      containerDetails |->
        [cpuRequestsPerContainer |-> resourceRequests.cpuPerContainer,
         memoryRequestsPerContainer |-> resourceRequests.memoryPerContainer]]

\* lines 1105-1111: the item pushed by the per-workload catch
errorItemOf(workload, message) ==
  [name |-> workload.name, namespace |-> workload.namespace,
   type |-> IF workload.type # "" THEN workload.type ELSE "Unknown",
   error |-> message, status |-> "error"]

\* res.json writes an item as JSON: NaN becomes null, undefined entries vanish
JSONItem(item) ==
  IF item.status = "error" THEN item
  ELSE [item EXCEPT
          !.cpuRequest = JSONValue(@), !.memoryRequest = JSONValue(@),
          !.cpuUsage = JSONValue(@), !.memoryUsage = JSONValue(@),
          !.recommendedCPU = JSONValue(@), !.recommendedMemory = JSONValue(@),
          !.efficiency = JSONValue(@), !.cost = JSONValue(@),
          !.potentialSavings = JSONValue(@),
          !.vpaDetails = [cpuPerContainer |-> JSONObj(@.cpuPerContainer),
                          memoryPerContainer |-> JSONObj(@.memoryPerContainer),
                          totalCpuRecommended |-> JSONValue(@.totalCpuRecommended),
                          totalMemoryRecommended |-> JSONValue(@.totalMemoryRecommended)],
          !.containerDetails =
             [cpuRequestsPerContainer |-> JSONObj(@.cpuRequestsPerContainer),
              memoryRequestsPerContainer |-> JSONObj(@.memoryRequestsPerContainer)]]

(***************************************************************************)
(* State                                                                   *)
(***************************************************************************)
VARIABLES
  rv,          \* the ratio validator applied to an input pair, then to its own output
  ev,          \* the scoring functions applied to one workload's upstream responses
  redisClient, \* "connected", or "null" when the server runs without a cache
  cache,       \* the cache store: key -> the string written and its TTL
  now,         \* the clock, in milliseconds
  pc,          \* "off", "idle", "processing", "responded"
  request,     \* the accepted request: identifiers, workloadsList, time window
  idx,         \* index of the workload the loop is at
  pos,         \* the call the handler is awaiting for that workload
  phase,       \* within getMetricsFromMonitoring: "get", "fetch", "set", "return"
  loc,         \* the local variables of the loop body and of the function it is in
  metricsData, \* the items pushed so far
  response,    \* what was sent
  env          \* history of the environment: faults injected, calls that failed

vars == <<rv, ev, redisClient, cache, now, pc, request, idx, pos, phase, loc,
          metricsData, response, env>>

handlerVars == <<redisClient, cache, now, pc, request, idx, pos, phase, loc,
                 metricsData, response, env>>

\* The handler's locals are kept twice: as the server computes them ("served")
\* and as a server without a cache computes them from the same upstream
\* responses ("fresh"); a cache entry likewise keeps, beside the string
\* written, the value a server without a cache has at that point.
Runs == {"served", "fresh"}

\* the locals of one iteration of the loop (lines 974-1098)
NoLocals ==
  [replicaMetrics |-> <<>>, replicaInfo |-> replicaInfoOnError,
   cpuRequestMetrics |-> <<>>, resourceRequests |-> resourceRequestsOnError,
   cpuResponse |-> <<>>, memoryResponse |-> <<>>,
   cpuRecommendations |-> <<>>, vpaRecommendations |-> vpaRecommendationsOnError]

NoValue == [kind |-> "none", served |-> <<>>, fresh |-> <<>>]

LocIdle ==
  [startTime |-> 0, endTime |-> 0, pending |-> NoValue,
   runs |-> [w \in Runs |-> NoLocals]]

NoRequest ==
  [projectId |-> <<>>, clusterName |-> <<>>, workloadsList |-> <<>>,
   startTime |-> 0, endTime |-> 0]

NoResponse == [status |-> 0, error |-> "", workloads |-> <<>>]

NoCall == [getFault |-> FALSE, setFault |-> FALSE, fetched |-> FALSE]

EnvIdle ==
  [clockStep |-> 0, faults |-> 0, failed |-> {}, surfaced |-> {}, call |-> NoCall,
   uncached |-> <<>>, rejected |-> ""]

HandlerOff ==
  /\ redisClient = "null"
  /\ cache = EmptyObj
  /\ now = 0
  /\ pc = "off"
  /\ request = NoRequest
  /\ idx = 0
  /\ pos = ""
  /\ phase = ""
  /\ loc = LocIdle
  /\ metricsData = <<>>
  /\ response = NoResponse
  /\ env = EnvIdle

NoItem == [status |-> "none"]

EngineIdle ==
  [stage |-> "idle",
   cpuRequestMetrics |-> <<>>, memoryRequestMetrics |-> <<>>,
   cpuResponse |-> <<>>, memoryResponse |-> <<>>,
   cpuRecommendations |-> <<>>, memoryRecommendations |-> <<>>,
   vpaRecommendations |-> vpaRecommendationsOnError, item |-> NoItem]

(***************************************************************************)
(* SpecRatio: validateAndAdjustCPUMemoryRatio on bounded inputs            *)
(***************************************************************************)
MaxCpuCenti == 8
MaxMemUnits == 16

NoResult == [cpu |-> Undefined, memory |-> Undefined, adjusted |-> FALSE, reason |-> NoReason]
RatioIdle == [stage |-> "idle", cpuCores |-> Undefined, memoryBytes |-> Undefined,
              first |-> NoResult, second |-> NoResult]

\* cpu: hundredths of a core and whole cores; memory: multiples of 16 MiB and of 1 GiB
RatioCpuInputs ==
  {JDiv(FInt(c), Hundred) : c \in 1..MaxCpuCenti} \cup {FInt(c) : c \in 1..MaxCpuCenti}
RatioMemoryInputs ==
  {JMul(FInt(j), JMul(FInt(16), MiB)) : j \in 0..MaxMemUnits}
    \cup {JMul(FInt(j), GiB) : j \in 0..MaxMemUnits}

InitRatio ==
  /\ rv \in {[stage |-> "input", cpuCores |-> c, memoryBytes |-> m,
              first |-> NoResult, second |-> NoResult] :
               c \in RatioCpuInputs, m \in RatioMemoryInputs}
  /\ ev = EngineIdle
  /\ HandlerOff

RatioApply ==
  /\ rv.stage = "input"
  /\ rv' = [rv EXCEPT !.stage = "applied",
                      !.first = validateAndAdjustCPUMemoryRatio(rv.cpuCores, rv.memoryBytes)]
  /\ UNCHANGED <<ev, handlerVars>>

RatioReapply ==
  /\ rv.stage = "applied"
  /\ rv' = [rv EXCEPT !.stage = "reapplied",
                      !.second = validateAndAdjustCPUMemoryRatio(rv.first.cpu, rv.first.memory)]
  /\ UNCHANGED <<ev, handlerVars>>

NextRatio == RatioApply \/ RatioReapply

SpecRatio == InitRatio /\ [][NextRatio]_vars

(***************************************************************************)
(* SpecEngine: the loop body of the handler, from the six responses of one *)
(* workload to its item, on bounded inputs                                 *)
(***************************************************************************)
MaxUsagePoints == 3

CpuUsageStep == Dec(3, 1)
MemoryUsageStep == JMul(FInt(50), MiB)

\* a usage response of one series with n points, newest first, the j-th oldest
\* point carrying j steps
UsageSeries(n, step) ==
  IF n = 0 THEN <<>>
  ELSE <<Series("app", "pod-1", "",
                [j \in 1..n |-> Point(60 * (n + 1 - j), JMul(FInt(n + 1 - j), step))])>>

OneContainer(value) == <<Series("app", "pod-1", "", <<Point(60, value)>>)>>
TwoContainers(a, b) ==
  <<Series("app", "pod-1", "", <<Point(60, a)>>),
    Series("sidecar", "pod-1", "", <<Point(60, b)>>)>>

EngineCpuRequests ==
  {<<>>, OneContainer(Dec(1, 1)), TwoContainers(Dec(25, 2), Dec(5, 2))}
EngineMemoryRequests ==
  {<<>>, OneContainer(JMul(FInt(128), MiB)),
   TwoContainers(JMul(FInt(256), MiB), JMul(FInt(64), MiB))}
EngineCpuRecommendations ==
  {<<>>, OneContainer(Dec(11, 3)), TwoContainers(Dec(8, 2), Dec(32, 2))}
EngineMemoryRecommendations ==
  {<<>>, OneContainer(JMul(FInt(8), MiB)), OneContainer(JMul(FInt(3), GiB)),
   TwoContainers(JMul(FInt(16), MiB), JMul(FInt(16), MiB))}

EngineReplicaInfo == [count |-> 3, type |-> "Deployment"]
EngineWorkload == Workload(<<"w", "e", "b">>, <<"p", "r", "o", "d">>, "Deployment")

InitEngine ==
  /\ ev \in {[EngineIdle EXCEPT !.stage = "input",
                !.cpuRequestMetrics = cr, !.memoryRequestMetrics = mr,
                !.cpuResponse = UsageSeries(cu, CpuUsageStep),
                !.memoryResponse = UsageSeries(mu, MemoryUsageStep),
                !.cpuRecommendations = vc, !.memoryRecommendations = vm] :
               cr \in EngineCpuRequests, mr \in EngineMemoryRequests,
               cu \in 0..MaxUsagePoints, mu \in 0..MaxUsagePoints,
               vc \in EngineCpuRecommendations, vm \in EngineMemoryRecommendations}
  /\ rv = RatioIdle
  /\ HandlerOff

EngineCompute ==
  /\ ev.stage = "input"
  /\ LET vpaRecommendations ==
           vpaRecommendationsOf(ev.cpuRecommendations, ev.memoryRecommendations)
         resourceRequests ==
           resourceRequestsOf(ev.cpuRequestMetrics, ev.memoryRequestMetrics)
     IN ev' = [ev EXCEPT !.stage = "computed",
                 !.vpaRecommendations = vpaRecommendations,
                 !.item = processedMetricsOf(EngineWorkload, EngineReplicaInfo,
                                             resourceRequests, ev.cpuResponse,
                                             ev.memoryResponse, vpaRecommendations)]
  /\ UNCHANGED <<rv, handlerVars>>

NextEngine == EngineCompute

SpecEngine == InitEngine /\ [][NextEngine]_vars

(***************************************************************************)
(* SpecRounding: the two roundings of a recommendation, applied to a value *)
(* and then to their own result                                            *)
(***************************************************************************)
MaxRoundCpu == 30
MaxRoundMem == 20

\* millicores: whole numbers, and hundredths of a core times 1000 as line 1227
\* makes them; bytes: multiples of 4 MiB, and those with the 20% buffer of line
\* 1229
RoundingCpuInputs ==
  {FInt(n) : n \in 0..MaxRoundCpu} \cup {JMul(Dec(n, 2), Thousand) : n \in 0..MaxRoundCpu}
RoundingMemoryInputs ==
  {JMul(FInt(4 * j), MiB) : j \in 0..MaxRoundMem}
    \cup {JMul(JMul(FInt(4 * j), MiB), Dec(12, 1)) : j \in 0..MaxRoundMem}

RoundingInput(metricType, value) ==
  [stage |-> "input", metricType |-> metricType, value |-> value,
   first |-> Undefined, second |-> Undefined]

\* lines 1180, 1193, 1235 and 1239
RoundUp(metricType, x) == IF metricType = "cpu" THEN RoundUpTo10m(x) ELSE RoundUpTo16Mi(x)

InitRounding ==
  /\ rv \in {RoundingInput("cpu", x) : x \in RoundingCpuInputs}
            \cup {RoundingInput("memory", x) : x \in RoundingMemoryInputs}
  /\ ev = EngineIdle
  /\ HandlerOff

RoundingApply ==
  /\ rv.stage = "input"
  /\ rv' = [rv EXCEPT !.stage = "rounded", !.first = RoundUp(rv.metricType, rv.value)]
  /\ UNCHANGED <<ev, handlerVars>>

RoundingReapply ==
  /\ rv.stage = "rounded"
  /\ rv' = [rv EXCEPT !.stage = "rerounded", !.second = RoundUp(rv.metricType, rv.first)]
  /\ UNCHANGED <<ev, handlerVars>>

NextRounding == RoundingApply \/ RoundingReapply

SpecRounding == InitRounding /\ [][NextRounding]_vars

(***************************************************************************)
(* SpecSeries: the functions that read one response of listTimeSeries,     *)
(* each applied to a bounded response                                      *)
(***************************************************************************)
\* points of the first series of a response; a second series has at most one
MaxSeriesPoints == 2

SeriesSeconds == {60, 120}

\* value.doubleValue of a point: missing, zero, or one of two readings (cores,
\* or bytes)
SeriesValues(metricType) ==
  {Undefined, Zero}
    \cup (IF metricType = "cpu" THEN {Dec(5, 2), Dec(25, 2)}
          ELSE {JMul(FInt(24), MiB), JMul(FInt(100), MiB)})

SeriesPoints(metricType) ==
  {Point(s, v) : s \in SeriesSeconds, v \in SeriesValues(metricType)}

PointLists(metricType, n) ==
  UNION {[1..k -> SeriesPoints(metricType)] : k \in 0..n}

\* points of a series long enough for the 90th percentile to differ from the
\* maximum
MaxLongPoints == 11

\* one series of n points, newest first, the j-th oldest carrying j hundredths
\* of a core, or j times 4 MiB
LongSeries(metricType, n) ==
  <<Series("app", "pod-1", "",
           [j \in 1..n |->
              Point(60 * (n + 1 - j),
                    IF metricType = "cpu" THEN Dec(n + 1 - j, 2)
                    ELSE JMul(FInt(4 * (n + 1 - j)), MiB))])>>

\* an empty response, one series of container app, that series followed by
\* one of another pod for the same or for another container, or a long series
SeriesResponses(metricType) ==
  {<<>>, LongSeries(metricType, MaxLongPoints)}
    \cup {<<Series("app", "pod-1", "", p)>> : p \in PointLists(metricType, MaxSeriesPoints)}
    \cup {<<Series("app", "pod-1", "", p), Series(c, "pod-2", "", q)>> :
            p \in PointLists(metricType, MaxSeriesPoints),
            c \in {"app", "sidecar"},
            q \in PointLists(metricType, 1)}

\* resources.requests of the workload: none known, or one that is not a
\* multiple of the rounding step
SeriesRequests(metricType) ==
  {Zero, IF metricType = "cpu" THEN FInt(105) ELSE JMul(FInt(72), MiB)}

SeriesIdle ==
  [stage |-> "idle", metricType |-> "", timeSeries |-> <<>>, currentRequest |-> Zero,
   result |-> Undefined]

InitSeries ==
  /\ ev \in UNION {{[SeriesIdle EXCEPT !.stage = "input", !.metricType = t,
                                        !.timeSeries = ts, !.currentRequest = r] :
                      ts \in SeriesResponses(t), r \in SeriesRequests(t)} :
                   t \in {"cpu", "memory"}}
  /\ rv = RatioIdle
  /\ HandlerOff

\* lines 1163-1171
SeriesCurrentUsage ==
  /\ ev.stage = "input"
  /\ ev' = [ev EXCEPT !.stage = "usage", !.result = calculateCurrentUsage(ev.timeSeries)]
  /\ UNCHANGED <<rv, handlerVars>>

\* lines 507-550
SeriesExtract ==
  /\ ev.stage = "input"
  /\ ev' = [ev EXCEPT !.stage = "extracted",
                      !.result = extractPerContainerValues(ev.timeSeries, ev.metricType)]
  /\ UNCHANGED <<rv, handlerVars>>

\* lines 1174-1241, the autoscaler having no data
SeriesRecommend ==
  /\ ev.stage = "input"
  /\ ev' = [ev EXCEPT !.stage = "recommended",
              !.result = IF ev.metricType = "cpu"
                         THEN getRecommendedCPU(vpaRecommendationsOnError, ev.timeSeries,
                                                ev.currentRequest)
                         ELSE getRecommendedMemory(vpaRecommendationsOnError, ev.timeSeries,
                                                   ev.currentRequest)]
  /\ UNCHANGED <<rv, handlerVars>>

NextSeries == SeriesCurrentUsage \/ SeriesExtract \/ SeriesRecommend

SpecSeries == InitSeries /\ [][NextSeries]_vars

(***************************************************************************)
(* The calls of validateAndAdjustCPUMemoryRatio: the arguments each call   *)
(* site passes, in the order of the calls                                  *)
(***************************************************************************)
Call(cpuCores, memoryBytes) == [cpuCores |-> cpuCores, memoryBytes |-> memoryBytes]

\* a plausible slip: the validator is called for every container
perContainerCall_unguarded(containerCpu, containerMemory, scale) ==
  <<Call(JDiv(containerCpu, scale), containerMemory)>>

\* lines 450-452 and 725-726: if (containerCpu && containerMemory)
perContainerCall(containerCpu, containerMemory, scale) ==
  IF Truthy(containerCpu) /\ Truthy(containerMemory)
  THEN <<Call(JDiv(containerCpu, scale), containerMemory)>>
  ELSE <<>>

\* lines 446-462 and 721-736: the forEach over Object.keys(cpuPerContainer)
RECURSIVE perContainerCalls(_, _, _, _)
perContainerCalls(cpuPerContainer, memoryPerContainer, scale, i) ==
  IF i > Len(cpuPerContainer) THEN <<>>
  ELSE perContainerCall(cpuPerContainer[i].val,
                        ObjGet(memoryPerContainer, cpuPerContainer[i].key), scale)
       \o perContainerCalls(cpuPerContainer, memoryPerContainer, scale, i + 1)

\* lines 473-475 and 709-710: if (total cpu && total memory)
totalCall(totalCpu, totalMemory, scale) ==
  IF Truthy(totalCpu) /\ Truthy(totalMemory)
  THEN <<Call(JDiv(totalCpu, scale), totalMemory)>>
  ELSE <<>>

\* lines 465-475: the totals are those of the adjusted maps
requestsTotalCall(adj) ==
  totalCall(ReduceSum(ObjValues(adj.cpu)), ReduceSum(ObjValues(adj.memory)), Thousand)

requestsCallsFrom(cpuPerContainer, memoryPerContainer) ==
  perContainerCalls(cpuPerContainer, memoryPerContainer, Thousand, 1)
  \o requestsTotalCall(AdjustPerContainer(cpuPerContainer, memoryPerContainer, Thousand, 1,
                                          NoAdjustments))

\* the calls of getResourceRequestsFromMonitoring
requestsCalls(cpuRequestMetrics, memoryRequestMetrics) ==
  requestsCallsFrom(extractPerContainerValues(cpuRequestMetrics, "cpu"),
                    extractPerContainerValues(memoryRequestMetrics, "memory"))

\* the calls of getVPARecommendations: the totals first (line 710), then the
\* containers (line 726)
recommendationsCalls(cpuRecommendations, memoryRecommendations) ==
  totalCall(extractLatestRecommendation(cpuRecommendations),
            extractLatestRecommendation(memoryRecommendations), One)
  \o perContainerCalls(extractPerContainerRecommendations(cpuRecommendations),
                       extractPerContainerRecommendations(memoryRecommendations), One, 1)

\* lines 1345-1349: if (totalRoundedCpuMillicores > 0 && totalRoundedMemoryBytes > 0)
roundedTotalsCall(totalRoundedCpuMillicores, totalRoundedMemoryBytes) ==
  IF JGt(totalRoundedCpuMillicores, Zero) /\ JGt(totalRoundedMemoryBytes, Zero)
  THEN <<Call(JDiv(totalRoundedCpuMillicores, Thousand), totalRoundedMemoryBytes)>>
  ELSE <<>>

\* the calls of generateRecommendationsWithVPA
textCalls(vpaRecommendations) ==
  IF vpaRecommendations.available
  THEN roundedTotalsCall(
         ReduceSum(ObjValues(RoundedCpuPerContainer(vpaRecommendations.cpuPerContainer))),
         ReduceSum(ObjValues(RoundedMemoryPerContainer(vpaRecommendations.memoryPerContainer))))
  ELSE <<>>

(***************************************************************************)
(* SpecSignals: getResourceRequestsFromMonitoring, getVPARecommendations   *)
(* and generateRecommendationsWithVPA on responses in which each signal of *)
(* each container is present, absent or zero                               *)
(***************************************************************************)
\* container app in a response: no series, a series without points, a point
\* without a value, or a point with one of the values
AppSignals(values) ==
  {<<>>, <<Series("app", "pod-1", "", <<>>)>>,
   <<Series("app", "pod-1", "", <<Point(60, Undefined)>>)>>}
    \cup {<<Series("app", "pod-1", "", <<Point(60, v)>>)>> : v \in values}

\* container sidecar in a response: no series, or a point with the value
SidecarSignals(value) == {<<>>, <<Series("sidecar", "pod-1", "", <<Point(60, value)>>)>>}

\* cores: zero, 11m, 10.4m; sidecar 320m
SignalCpuResponses ==
  {a \o s : a \in AppSignals({Zero, Dec(11, 3), Dec(104, 4)}),
            s \in SidecarSignals(Dec(32, 2))}

\* bytes: zero, 8 MiB; sidecar 16 MiB
SignalMemoryResponses ==
  {a \o s : a \in AppSignals({Zero, JMul(FInt(8), MiB)}),
            s \in SidecarSignals(JMul(FInt(16), MiB))}

NoRounded == [cpu |-> EmptyObj, memory |-> EmptyObj]

SignalsIdle ==
  [stage |-> "idle", kind |-> "", cpuMetrics |-> <<>>, memoryMetrics |-> <<>>,
   result |-> vpaRecommendationsOnError, calls |-> <<>>, rounded |-> NoRounded,
   text |-> <<>>]

InitSignals ==
  /\ ev \in {[SignalsIdle EXCEPT !.stage = "input", !.kind = k,
                                 !.cpuMetrics = c, !.memoryMetrics = m] :
               k \in {"requests", "recommendations"},
               c \in SignalCpuResponses, m \in SignalMemoryResponses}
  /\ rv = RatioIdle
  /\ HandlerOff

\* lines 435-490
SignalsRequests ==
  /\ ev.stage = "input" /\ ev.kind = "requests"
  /\ ev' = [ev EXCEPT !.stage = "returned",
                      !.result = resourceRequestsOf(ev.cpuMetrics, ev.memoryMetrics),
                      !.calls = requestsCalls(ev.cpuMetrics, ev.memoryMetrics)]
  /\ UNCHANGED <<rv, handlerVars>>

\* lines 695-755
SignalsRecommendations ==
  /\ ev.stage = "input" /\ ev.kind = "recommendations"
  /\ ev' = [ev EXCEPT !.stage = "returned",
                      !.result = vpaRecommendationsOf(ev.cpuMetrics, ev.memoryMetrics),
                      !.calls = recommendationsCalls(ev.cpuMetrics, ev.memoryMetrics)]
  /\ UNCHANGED <<rv, handlerVars>>

\* lines 1303-1443, of a workload without usage series and without requests
SignalsText ==
  /\ ev.stage = "returned" /\ ev.kind = "recommendations"
  /\ ev' = [ev EXCEPT
              !.stage = "text",
              !.calls = @ \o textCalls(ev.result),
              !.rounded = IF ev.result.available
                          THEN [cpu |-> RoundedCpuPerContainer(ev.result.cpuPerContainer),
                                memory |->
                                  RoundedMemoryPerContainer(ev.result.memoryPerContainer)]
                          ELSE NoRounded,
              !.text = generateRecommendationsWithVPA(
                         ev.result, <<>>, <<>>,
                         resourcesOf(EngineWorkload, resourceRequestsOnError))]
  /\ UNCHANGED <<rv, handlerVars>>

NextSignals == SignalsRequests \/ SignalsRecommendations \/ SignalsText

SpecSignals == InitSignals /\ [][NextSignals]_vars

(***************************************************************************)
(* Spec: the POST /api/metrics handler serving one request, the cache and  *)
(* the monitoring service.  Identifiers are sequences of characters.       *)
(***************************************************************************)
\* the characters of /^[a-z0-9-]+$/
Lowercase ==
  {"a", "b", "c", "d", "e", "f", "g", "h", "i", "j", "k", "l", "m",
   "n", "o", "p", "q", "r", "s", "t", "u", "v", "w", "x", "y", "z"}
Digits == {"0", "1", "2", "3", "4", "5", "6", "7", "8", "9"}

MatchesIdentifier(s) ==
  Len(s) > 0 /\ \A i \in 1..Len(s) : s[i] \in Lowercase \cup Digits \cup {"-"}

\* lines 902-944: the message of the 400 response, "" when the body passes;
\* a missing string is <<>> and a missing timeRange is 0
validationError(body) ==
  IF body.projectId = <<>> \/ body.clusterName = <<>>
  THEN "Missing required parameters: projectId and clusterName"
  ELSE IF ~MatchesIdentifier(body.projectId) THEN "Invalid projectId format"
  ELSE IF ~MatchesIdentifier(body.clusterName) THEN "Invalid clusterName format"
  ELSE IF body.namespace # <<>> /\ ~MatchesIdentifier(body.namespace)
  THEN "Invalid namespace format"
  ELSE IF body.workloadName # <<>> /\ ~MatchesIdentifier(body.workloadName)
  THEN "Invalid workloadName format"
  ELSE IF body.timeRange # 0 /\ (body.timeRange < 1 \/ body.timeRange > 168)
  THEN "Invalid timeRange"
  ELSE ""

\* lines 952-962
workloadsListOf(body) ==
  IF Len(body.workloads) = 0 /\ body.workloadName # <<>>
  THEN <<Workload(body.workloadName,
                  IF body.namespace # <<>> THEN body.namespace
                  ELSE <<"d", "e", "f", "a", "u", "l", "t">>,
                  "Unknown")>>
  ELSE body.workloads

HourMs == 60 * 60 * 1000

\* lines 947-948
windowStartOf(body, endTime) ==
  endTime - (IF body.timeRange # 0 THEN body.timeRange ELSE 1) * HourMs

(***************************************************************************)
(* The cache helpers.  What is kept under a key is the string written,     *)
(* represented by the value it parses to, and the TTL.                     *)
(***************************************************************************)
\* JSON.stringify of a response of listTimeSeries or of the recommendations
JSONStringify(data) ==
  [data EXCEPT !.served = IF data.kind = "series" THEN JSONSeries(@)
                          ELSE JSONRecommendations(@)]

NoHit == [threw |-> FALSE, hit |-> FALSE, value |-> NoValue]

\* a plausible slip: the read error is not caught
getCachedData_rethrows(client, store, key, fault) ==
  IF client = "null" THEN NoHit
  ELSE IF fault THEN [threw |-> TRUE, hit |-> FALSE, value |-> NoValue]
  ELSE IF ObjHas(store, key)
  THEN [threw |-> FALSE, hit |-> TRUE, value |-> ObjGet(store, key).string]
  ELSE NoHit

\* lines 130-139, fault saying that redisClient.get rejects: what the call
\* returns (hit, value), threw saying that it throws instead
getCachedData(client, store, key, fault) ==
  IF client = "null" THEN NoHit
  ELSE IF fault THEN NoHit
  ELSE IF ObjHas(store, key)
  THEN [threw |-> FALSE, hit |-> TRUE, value |-> ObjGet(store, key).string]
  ELSE NoHit

\* lines 141-148, fault saying that redisClient.setex rejects: the store after
\* the call, which never throws
setCachedData(client, store, key, data, ttlSeconds, fault) ==
  IF client = "null" \/ fault THEN store
  ELSE ObjSet(store, key, [string |-> JSONStringify(data), ttl |-> ttlSeconds])

\* lines 151-156, with no environment variable set
CacheTtlMetrics == 120
\* line 753
CacheTtlRecommendations == 1800

\* `${x || 'all'}`
OrAll(s) == IF s = <<>> THEN <<"a", "l", "l">> ELSE s

\* line 556
metricsCacheKey(projectId, clusterName, namespace, workloadName, metricType, startTime, endTime) ==
  <<"metrics_">> \o projectId \o <<"_">> \o clusterName \o <<"_">> \o OrAll(namespace)
  \o <<"_">> \o OrAll(workloadName)
  \o <<"_", metricType, "_", ToString(startTime), "_", ToString(endTime)>>

\* line 658
recommendationsCacheKey(projectId, clusterName, namespace, workloadName, startTime) ==
  <<"vpa_recommendations_">> \o projectId \o <<"_">> \o clusterName \o <<"_">>
  \o OrAll(namespace) \o <<"_">> \o OrAll(workloadName) \o <<"_", ToString(startTime)>>

(***************************************************************************)
(* The reads of one iteration, in the order of the source                  *)
(***************************************************************************)
NetworkMetric == "kubernetes.io/pod/network/received_bytes_count"
CpuUsageMetric == "kubernetes.io/container/cpu/core_usage_time"
MemoryUsageMetric == "kubernetes.io/container/memory/used_bytes"
CpuRequestMetric == "kubernetes.io/container/cpu/request_cores"
MemoryRequestMetric == "kubernetes.io/container/memory/request_bytes"
CpuRecommendationMetric ==
  "kubernetes.io/autoscaler/container/cpu/per_replica_recommended_request_cores"
MemoryRecommendationMetric ==
  "kubernetes.io/autoscaler/container/memory/per_replica_recommended_request_bytes"

\* the positions at which getMetricsFromMonitoring is awaited
ReadPositions ==
  {"replica", "replica_alt", "req_cpu", "req_mem", "use_cpu", "use_mem", "vpa_cpu",
   "vpa_mem"}

metricTypeAt(p) ==
  CASE p = "replica" -> NetworkMetric
    [] p = "replica_alt" -> CpuUsageMetric
    [] p = "req_cpu" -> CpuRequestMetric
    [] p = "req_mem" -> MemoryRequestMetric
    [] p = "use_cpu" -> CpuUsageMetric
    [] p = "use_mem" -> MemoryUsageMetric
    [] p = "vpa_cpu" -> CpuRecommendationMetric
    [] OTHER -> MemoryRecommendationMetric

\* getRunningReplicaCount, getReplicaCountAlternative and
\* getResourceRequestsFromMonitoring pass a window of their own
OwnWindow(p) == p \in {"replica", "replica_alt", "req_cpu", "req_mem"}

\* a plausible slip: no function but the handler catches
catchingFrame_handlerOnly(p) == "handler"

\* the function whose try block catches what the call awaited at p throws
catchingFrame(p) ==
  CASE p = "replica" -> "getRunningReplicaCount"
    [] p = "replica_alt" -> "getReplicaCountAlternative"
    [] p \in {"req_cpu", "req_mem"} -> "getResourceRequestsFromMonitoring"
    [] p \in {"vpa_cpu", "vpa_mem", "vpa_store"} -> "getVPARecommendations"
    [] OTHER -> "handler"

\* the locals of one run after the call awaited at p returned value
returned(locals, p, value) ==
  CASE p = "replica" ->
         [locals EXCEPT !.replicaMetrics = value,
                        !.replicaInfo = replicaInfoOf(value, replicaAlternativeOnError)]
    [] p = "replica_alt" ->
         [locals EXCEPT !.replicaInfo =
                           replicaInfoOf(locals.replicaMetrics, replicaAlternativeOf(value))]
    [] p = "req_cpu" -> [locals EXCEPT !.cpuRequestMetrics = value]
    [] p = "req_mem" ->
         [locals EXCEPT !.resourceRequests =
                           resourceRequestsOf(locals.cpuRequestMetrics, value)]
    [] p = "use_cpu" -> [locals EXCEPT !.cpuResponse = value]
    [] p = "use_mem" -> [locals EXCEPT !.memoryResponse = value]
    [] p = "vpa_cpu" -> [locals EXCEPT !.cpuRecommendations = value]
    [] OTHER ->
         [locals EXCEPT !.vpaRecommendations =
                           vpaRecommendationsOf(locals.cpuRecommendations, value)]

\* where the handler is after the call awaited at p returned
positionAfter(p, value) ==
  CASE p = "replica" ->
         IF Cardinality(UniquePods(value, 1)) < 3 THEN "replica_alt" ELSE "req_entry"
    [] p = "replica_alt" -> "req_entry"
    [] p = "req_cpu" -> "req_mem"
    [] p = "req_mem" -> "use_cpu"
    [] p = "use_cpu" -> "use_mem"
    [] p = "use_mem" -> "vpa_lookup"
    [] p = "vpa_cpu" -> "vpa_mem"
    [] OTHER -> "vpa_store"

\* the locals of one run after frame caught what the call awaited threw
caught(locals, frame) ==
  CASE frame = "getRunningReplicaCount" -> [locals EXCEPT !.replicaInfo = replicaInfoOnError]
    [] frame = "getReplicaCountAlternative" ->
         [locals EXCEPT !.replicaInfo =
                           replicaInfoOf(locals.replicaMetrics, replicaAlternativeOnError)]
    [] frame = "getResourceRequestsFromMonitoring" ->
         [locals EXCEPT !.resourceRequests = resourceRequestsOnError]
    [] frame = "getVPARecommendations" ->
         [locals EXCEPT !.vpaRecommendations = vpaRecommendationsOnError]
    [] OTHER -> locals

\* where the handler is after frame caught
positionAfterCatch(frame) ==
  CASE frame = "getRunningReplicaCount" -> "req_entry"
    [] frame = "getReplicaCountAlternative" -> "req_entry"
    [] frame = "getResourceRequestsFromMonitoring" -> "use_cpu"
    [] frame = "getVPARecommendations" -> "assemble"
    [] OTHER -> "next"

(***************************************************************************)
(* The requests sent and what the monitoring service holds                 *)
(***************************************************************************)
Body(projectId, clusterName, namespace, workloadName, timeRange, workloads) ==
  [projectId |-> projectId, clusterName |-> clusterName, namespace |-> namespace,
   workloadName |-> workloadName, timeRange |-> timeRange, workloads |-> workloads]

Project == <<"p", "-", "1">>
Cluster == <<"c", "1">>
Prod == <<"p", "r", "o", "d">>
Web == <<"w", "e", "b">>
Api == <<"a", "p", "i">>
Job == <<"j", "o", "b">>

Requests ==
  {Body(Project, Cluster, <<>>, <<>>, 24, <<Workload(Api, Prod, ""), Workload(Api, Prod, "")>>),
   Body(Project, Cluster, <<>>, <<>>, 1,
        <<Workload(Job, Prod, "CronJob"), Workload(Web, Prod, "Deployment")>>),
   Body(Project, Cluster, <<>>, Web, 0, <<>>),
   Body(<<"P", "1">>, Cluster, <<>>, Web, 1, <<>>),
   Body(Project, Cluster, Prod, <<>>, 1, <<>>),
   Body(Project, Cluster, <<>>, Web, 200, <<>>)}

PodSeries(pod, controllerType) == Series("", pod, controllerType, <<Point(60, One)>>)

\* what listTimeSeries answers for a workload and a metric: web is a
\* Deployment of three pods with every signal, api a StatefulSet of two pods
\* of which the network metric shows one, with no memory request and no
\* autoscaler memory signal, job has no series at all
Upstream(workloadName, metricType) ==
  IF workloadName = Web
  THEN CASE metricType = NetworkMetric ->
              <<PodSeries("web-1", "Deployment"), PodSeries("web-2", "Deployment"),
                PodSeries("web-3", "Deployment")>>
         [] metricType = CpuUsageMetric -> UsageSeries(2, CpuUsageStep)
         [] metricType = MemoryUsageMetric -> UsageSeries(2, MemoryUsageStep)
         [] metricType = CpuRequestMetric -> TwoContainers(Dec(25, 2), Dec(5, 2))
         [] metricType = MemoryRequestMetric ->
              TwoContainers(JMul(FInt(256), MiB), JMul(FInt(64), MiB))
         [] metricType = CpuRecommendationMetric -> OneContainer(Dec(2, 1))
         [] OTHER -> OneContainer(JMul(FInt(512), MiB))
  ELSE IF workloadName = Api
  THEN CASE metricType = NetworkMetric -> <<PodSeries("api-0", "")>>
         [] metricType = CpuUsageMetric ->
              <<Series("app", "api-0", "StatefulSet", <<Point(60, Dec(9, 1))>>),
                Series("app", "api-1", "StatefulSet", <<Point(60, Dec(9, 1))>>)>>
         [] metricType = MemoryUsageMetric -> UsageSeries(1, MemoryUsageStep)
         [] metricType = CpuRequestMetric -> OneContainer(Dec(1, 1))
         [] metricType = CpuRecommendationMetric -> OneContainer(Dec(11, 3))
         [] OTHER -> <<>>
  ELSE <<>>

\* the value getMetricsFromMonitoring holds after line 644
Fetched(series) == [kind |-> "series", served |-> series, fresh |-> series]

UpstreamMessage == "14 UNAVAILABLE"

\* the rejections of listTimeSeries the outer catch of the handler tells apart
\* by error.code (lines 1121-1144), each with a message of its own
UpstreamErrors ==
  {[code |-> "UNAUTHENTICATED", message |-> "16 UNAUTHENTICATED"],
   [code |-> "PERMISSION_DENIED", message |-> "7 PERMISSION_DENIED"],
   [code |-> "NOT_FOUND", message |-> "5 NOT_FOUND"],
   [code |-> "ENOTFOUND", message |-> UpstreamMessage]}

\* line 652
FetchError(metricType, message) ==
  <<"Failed to fetch ", metricType, " metrics: ", message>>

(***************************************************************************)
(* Bounds of the handler's runs                                            *)
(***************************************************************************)
\* cache calls that reject and upstream calls that fail, per request
MaxFaults == 1
\* milliseconds that pass between two readings of the clock
ClockSteps == {0, 1}
\* the clock when the request arrives
ClockStart == 200 * HourMs

(***************************************************************************)
(* The handler                                                             *)
(***************************************************************************)
workloadAt == request.workloadsList[idx]

\* the window handed to getMetricsFromMonitoring by the call awaited at p
windowAt(p) ==
  IF OwnWindow(p) THEN [startTime |-> loc.startTime, endTime |-> loc.endTime]
  ELSE [startTime |-> request.startTime, endTime |-> request.endTime]

cacheKeyAt(p) ==
  metricsCacheKey(request.projectId, request.clusterName, workloadAt.namespace,
                  workloadAt.name, metricTypeAt(p), windowAt(p).startTime,
                  windowAt(p).endTime)

recommendationsKey ==
  recommendationsCacheKey(request.projectId, request.clusterName, workloadAt.namespace,
                          workloadAt.name, request.startTime)

\* a plausible slip: the catch pushes nothing
pushErrorItem_dropped(data, workload, message) == data

\* lines 1102-1112
pushErrorItem(data, workload, message) == Append(data, errorItemOf(workload, message))

phaseAt(p) == IF p \in ReadPositions THEN "get" ELSE ""

\* the for loop going to its next workload, or to line 1115
Advance ==
  IF idx < Len(request.workloadsList)
  THEN idx' = idx + 1 /\ pos' = "replica_entry" /\ phase' = ""
  ELSE idx' = idx /\ pos' = "respond" /\ phase' = ""

\* the call awaited at pos throws: the innermost try block around it catches,
\* history being the environment's record of the step
Throw(frame, message, history) ==
  IF frame = "handler"
  THEN /\ metricsData' = pushErrorItem(metricsData, workloadAt, message)
       /\ env' = [history EXCEPT !.uncached = Append(@, errorItemOf(workloadAt, message))]
       /\ Advance
       /\ loc' = [loc EXCEPT !.pending = NoValue]
  ELSE /\ loc' = [loc EXCEPT !.pending = NoValue,
                             !.runs = [w \in Runs |-> caught(loc.runs[w], frame)]]
       /\ pos' = positionAfterCatch(frame)
       /\ phase' = phaseAt(positionAfterCatch(frame))
       /\ env' = history
       /\ UNCHANGED <<idx, metricsData>>

Surfaced(history) == [history EXCEPT !.surfaced = @ \cup {<<idx, pos>>}]

\* lines 897-970: validation, the window and the list of workloads
Receive ==
  /\ pc = "idle"
  /\ \E body \in Requests :
       IF validationError(body) # ""
       THEN /\ response' = [NoResponse EXCEPT !.status = 400,
                                              !.error = validationError(body)]
            /\ pc' = "responded"
            /\ UNCHANGED <<now, request, idx, pos, phase>>
       ELSE IF Len(workloadsListOf(body)) = 0
       THEN /\ response' = [NoResponse EXCEPT !.status = 400,
                                              !.error = "No workloads specified"]
            /\ pc' = "responded"
            /\ now' = now + env.clockStep
            /\ UNCHANGED <<request, idx, pos, phase>>
       ELSE /\ request' = [projectId |-> body.projectId,
                           clusterName |-> body.clusterName,
                           workloadsList |-> workloadsListOf(body),
                           startTime |-> windowStartOf(body, now), endTime |-> now]
            /\ now' = now + env.clockStep
            /\ pc' = "processing"
            /\ idx' = 1
            /\ pos' = "replica_entry"
            /\ phase' = ""
            /\ UNCHANGED response
  /\ UNCHANGED <<rv, ev, redisClient, cache, loc, metricsData, env>>

\* lines 244-245: getRunningReplicaCount reads the clock for its 24 hours
StartReplicaCount ==
  /\ pc = "processing" /\ pos = "replica_entry"
  /\ loc' = [LocIdle EXCEPT !.startTime = now - 24 * HourMs, !.endTime = now]
  /\ now' = now + env.clockStep
  /\ pos' = "replica"
  /\ phase' = "get"
  /\ UNCHANGED <<rv, ev, redisClient, cache, pc, request, idx, metricsData, response, env>>

\* lines 407-408: getResourceRequestsFromMonitoring reads the clock for its hour
StartResourceRequests ==
  /\ pc = "processing" /\ pos = "req_entry"
  /\ loc' = [loc EXCEPT !.startTime = now - HourMs, !.endTime = now]
  /\ now' = now + env.clockStep
  /\ pos' = "req_cpu"
  /\ phase' = "get"
  /\ UNCHANGED <<rv, ev, redisClient, cache, pc, request, idx, metricsData, response, env>>

\* a plausible slip: the early return of line 560 is missing
LookedUp_alwaysFetches(result, history) ==
  IF result.threw
  THEN Throw(catchingFrame(pos), <<"read ECONNRESET">>, Surfaced(history))
  ELSE /\ loc' = [loc EXCEPT !.pending = result.value]
       /\ phase' = "fetch"
       /\ env' = history
       /\ UNCHANGED <<idx, pos, metricsData>>

\* lines 557-561 with the result of getCachedData
LookedUp(result, history) ==
  IF result.threw
  THEN Throw(catchingFrame(pos), <<"read ECONNRESET">>, Surfaced(history))
  ELSE /\ loc' = [loc EXCEPT !.pending = result.value]
       /\ phase' = IF result.hit THEN "return" ELSE "fetch"
       /\ env' = history
       /\ UNCHANGED <<idx, pos, metricsData>>

\* lines 556-561: getMetricsFromMonitoring asks the cache
CacheLookup ==
  /\ pc = "processing" /\ pos \in ReadPositions /\ phase = "get"
  /\ \E fault \in BOOLEAN :
       /\ fault => redisClient # "null" /\ env.faults < MaxFaults
       /\ LookedUp(getCachedData(redisClient, cache, cacheKeyAt(pos), fault),
                   [env EXCEPT !.faults = IF fault THEN @ + 1 ELSE @,
                               !.call = [NoCall EXCEPT !.getFault = fault]])
  /\ UNCHANGED <<rv, ev, redisClient, cache, now, pc, request, response>>

\* lines 635-644: listTimeSeries resolves
UpstreamResponds ==
  /\ pc = "processing" /\ pos \in ReadPositions /\ phase = "fetch"
  /\ loc' = [loc EXCEPT !.pending = Fetched(Upstream(workloadAt.name, metricTypeAt(pos)))]
  /\ phase' = "set"
  /\ env' = [env EXCEPT !.call.fetched = TRUE]
  /\ UNCHANGED <<rv, ev, redisClient, cache, now, pc, request, idx, pos, metricsData,
                 response>>

\* lines 635-653: listTimeSeries rejects and the catch throws again
UpstreamFails ==
  /\ pc = "processing" /\ pos \in ReadPositions /\ phase = "fetch"
  /\ env.faults < MaxFaults
  /\ \E error \in UpstreamErrors :
       Throw(catchingFrame(pos), FetchError(metricTypeAt(pos), error.message),
             Surfaced([env EXCEPT !.faults = @ + 1, !.failed = @ \cup {<<idx, pos>>},
                                  !.rejected = error.code]))
  /\ UNCHANGED <<rv, ev, redisClient, cache, now, pc, request, response>>

\* lines 635-644: listTimeSeries neither resolves nor rejects; nothing else
\* awaits, so the handler stays where it is
UpstreamNeverCompletes ==
  /\ pc = "processing" /\ pos \in ReadPositions /\ phase = "fetch"
  /\ phase' = "hung"
  /\ UNCHANGED <<rv, ev, redisClient, cache, now, pc, request, idx, pos, loc, metricsData,
                 response, env>>

\* line 647
CacheStore ==
  /\ pc = "processing" /\ pos \in ReadPositions /\ phase = "set"
  /\ \E fault \in BOOLEAN :
       /\ fault => redisClient # "null" /\ env.faults < MaxFaults
       /\ cache' = setCachedData(redisClient, cache, cacheKeyAt(pos), loc.pending,
                                 CacheTtlMetrics, fault)
       /\ env' = [env EXCEPT !.faults = IF fault THEN @ + 1 ELSE @, !.call.setFault = fault]
  /\ phase' = "return"
  /\ UNCHANGED <<rv, ev, redisClient, now, pc, request, idx, pos, loc, metricsData,
                 response>>

\* lines 560 and 649, and the caller's code up to its next await
ReturnToCaller ==
  /\ pc = "processing" /\ pos \in ReadPositions /\ phase = "return"
  /\ loc' = [loc EXCEPT !.pending = NoValue,
                        !.runs = [w \in Runs |-> returned(loc.runs[w], pos, loc.pending[w])]]
  /\ pos' = positionAfter(pos, loc.pending.served)
  /\ phase' = phaseAt(pos')
  /\ UNCHANGED <<rv, ev, redisClient, cache, now, pc, request, idx, metricsData, response,
                 env>>

\* lines 659-664 with the result of getCachedData
RecommendationsLookedUp(result, history) ==
  IF result.threw
  THEN Throw(catchingFrame(pos), <<"read ECONNRESET">>, Surfaced(history))
  ELSE /\ loc' = IF result.hit
                 THEN [loc EXCEPT !.runs = [w \in Runs |->
                                              [loc.runs[w] EXCEPT !.vpaRecommendations =
                                                                     result.value[w]]]]
                 ELSE loc
       /\ pos' = IF result.hit THEN "assemble" ELSE "vpa_cpu"
       /\ phase' = phaseAt(pos')
       /\ env' = history
       /\ UNCHANGED <<idx, metricsData>>

\* lines 658-664: getVPARecommendations asks the cache
VpaCacheLookup ==
  /\ pc = "processing" /\ pos = "vpa_lookup"
  /\ \E fault \in BOOLEAN :
       /\ fault => redisClient # "null" /\ env.faults < MaxFaults
       /\ RecommendationsLookedUp(
            getCachedData(redisClient, cache, recommendationsKey, fault),
            [env EXCEPT !.faults = IF fault THEN @ + 1 ELSE @,
                        !.call = [NoCall EXCEPT !.getFault = fault]])
  /\ UNCHANGED <<rv, ev, redisClient, cache, now, pc, request, response>>

RecommendationsOf(runs) ==
  [kind |-> "recommendations", served |-> runs.served.vpaRecommendations,
   fresh |-> runs.fresh.vpaRecommendations]

\* lines 753-755
VpaCacheStore ==
  /\ pc = "processing" /\ pos = "vpa_store"
  /\ \E fault \in BOOLEAN :
       /\ fault => redisClient # "null" /\ env.faults < MaxFaults
       /\ cache' = setCachedData(redisClient, cache, recommendationsKey,
                                 RecommendationsOf(loc.runs), CacheTtlRecommendations, fault)
       /\ env' = [env EXCEPT !.faults = IF fault THEN @ + 1 ELSE @, !.call.setFault = fault]
  /\ pos' = "assemble"
  /\ phase' = ""
  /\ UNCHANGED <<rv, ev, redisClient, now, pc, request, idx, loc, metricsData, response>>

\* line 1100, items being the item of each run
Pushed(items) ==
  /\ metricsData' = Append(metricsData, items["served"])
  /\ env' = [env EXCEPT !.uncached = Append(@, items["fresh"])]

itemOf(workload, locals) ==
  processedMetricsOf(workload, locals.replicaInfo, locals.resourceRequests,
                     locals.cpuResponse, locals.memoryResponse, locals.vpaRecommendations)

\* lines 1037-1100
Assemble ==
  /\ pc = "processing" /\ pos = "assemble"
  /\ Pushed([w \in Runs |-> itemOf(workloadAt, loc.runs[w])])
  /\ Advance
  /\ UNCHANGED <<rv, ev, redisClient, cache, now, pc, request, loc, response>>

\* line 1115
Respond ==
  /\ pc = "processing" /\ pos = "respond"
  /\ response' = [NoResponse EXCEPT
                    !.status = 200,
                    !.workloads = [i \in 1..Len(metricsData) |-> JSONItem(metricsData[i])]]
  /\ pc' = "responded"
  /\ pos' = ""
  /\ UNCHANGED <<rv, ev, redisClient, cache, now, request, idx, phase, loc, metricsData,
                 env>>

Init ==
  /\ rv = RatioIdle
  /\ ev = EngineIdle
  /\ redisClient \in {"null", "connected"}
  /\ cache = EmptyObj
  /\ now = ClockStart
  /\ pc = "idle"
  /\ request = NoRequest
  /\ idx = 0
  /\ pos = ""
  /\ phase = ""
  /\ loc = LocIdle
  /\ metricsData = <<>>
  /\ response = NoResponse
  /\ env \in {[EnvIdle EXCEPT !.clockStep = s] : s \in ClockSteps}

Next ==
  \/ Receive
  \/ StartReplicaCount
  \/ StartResourceRequests
  \/ CacheLookup
  \/ UpstreamResponds
  \/ UpstreamFails
  \/ UpstreamNeverCompletes
  \/ CacheStore
  \/ ReturnToCaller
  \/ VpaCacheLookup
  \/ VpaCacheStore
  \/ Assemble
  \/ Respond

Spec == Init /\ [][Next]_vars

\* a continuation of the handler is ready to run: this is ENABLED <<Next>>_vars,
\* every action changing pc, pos or phase
Ready == pc = "idle" \/ (pc = "processing" /\ phase # "hung")

\* weak fairness of Next, with Ready standing for ENABLED <<Next>>_vars
NextIsFair == []<>(~Ready) \/ []<><<Next>>_vars

\* the event loop runs a continuation that is ready
FairSpec == Init /\ [][Next]_vars /\ WF_vars(StartReplicaCount) /\ NextIsFair

(***************************************************************************)
(* Claims                                                                  *)
(***************************************************************************)
\* C1: a 200 response for a batch of N workloads carries exactly N entries, the
\* i-th entry carrying the name and the namespace of the i-th workload of the
\* request, whether that workload succeeded or failed; while the loop runs, the
\* entries pushed so far are those of the workloads before the current one.
C1_OneEntryPerWorkload ==
  /\ pc = "processing" /\ pos # "respond" => Len(metricsData) = idx - 1
  /\ response.status = 200 =>
       /\ Len(response.workloads) = Len(request.workloadsList)
       /\ \A i \in 1..Len(request.workloadsList) :
            /\ response.workloads[i].name = request.workloadsList[i].name
            /\ response.workloads[i].namespace = request.workloadsList[i].namespace

\* C1 witness: a batch of two was answered, one entry being an error item and
\* the other a successful one.
C1_Witness ==
  /\ response.status = 200
  /\ Len(request.workloadsList) = 2
  /\ {response.workloads[i].status : i \in 1..2} = {"error", "running"}

\* the reads of workload i that failed upstream
failedReads(i) == {p \in ReadPositions : <<i, p>> \in env.failed}

C3_EveryBatchResponds == (pc = "processing") ~> (pc = "responded")

\* C4: a failed cache read or write never surfaces.  Nothing but a failed
\* upstream call is ever thrown to a caller; when getMetricsFromMonitoring
\* returns after a cache read that failed, the upstream fetch was performed and
\* its result is what is returned; after a cache write that failed, the fetched
\* result is returned all the same.
C4_CacheFailureNeverSurfaces ==
  /\ env.surfaced \subseteq env.failed
  /\ (pc = "processing" /\ pos \in ReadPositions /\ phase = "return"
      /\ (env.call.getFault \/ env.call.setFault)) =>
       /\ env.call.fetched
       /\ loc.pending.served = Upstream(workloadAt.name, metricTypeAt(pos))

\* C4 witness: the cache read of a call failed and the call is returning what
\* it fetched.
C4_Witness ==
  /\ pc = "processing" /\ pos \in ReadPositions /\ phase = "return"
  /\ env.call.getFault
  /\ env.call.fetched

\* C5 as stated: for the same upstream responses the entries of the response
\* are the same whether the cache is disabled, misses or hits: every entry
\* equals the entry a server without a cache computes.
C5_CacheIsTransparent ==
  response.status = 200 =>
    \A i \in 1..Len(response.workloads) :
      response.workloads[i] = JSONItem(env.uncached[i])

\* one unit in the last place of 6.5
UlpOfMaxRatio == Num(FALSE, <<1>>, -50)

\* C6 as stated: for every input (cpuCores > 0, memoryBytes >= 0) the returned
\* pair has memoryGiB / cpuCores within [1.0, 6.5] inclusive.
C6_RatioWithinBounds ==
  rv.stage \in {"applied", "reapplied"} =>
    /\ JGe(finalRatio(rv.first), One)
    /\ JLe(finalRatio(rv.first), MaxRatio)

\* C6 amended: the ratio of the returned pair is at least 1.0 and at most one unit
\* in the last place above 6.5 (6.5 + 2^-50); it exceeds 6.5 only after the CPU
\* was raised, and is exactly 1 after the memory was raised.
C6_RatioWithinBoundsUpToRounding ==
  rv.stage \in {"applied", "reapplied"} =>
    /\ JGe(finalRatio(rv.first), One)
    /\ JLe(finalRatio(rv.first), JAdd(MaxRatio, UlpOfMaxRatio))
    /\ (rv.first.reason # CpuReason => JLe(finalRatio(rv.first), MaxRatio))
    /\ (rv.first.reason = MemoryReason => finalRatio(rv.first) = One)

\* C6 witness: the CPU was raised and the ratio of the result is above 6.5.
C6_Witness ==
  /\ rv.stage = "applied"
  /\ rv.first.reason = CpuReason
  /\ JGt(finalRatio(rv.first), MaxRatio)

\* C7 as stated: re-applying the validator to a pair whose ratio is already within
\* bounds, in particular to its own output, returns the same cpu and memory
\* with adjusted = false and reason = null.
C7_ReapplyIsNoOp ==
  rv.stage = "reapplied" =>
    /\ rv.second.cpu = rv.first.cpu
    /\ rv.second.memory = rv.first.memory
    /\ rv.second.adjusted = FALSE
    /\ rv.second.reason = NoReason

\* the ratio the claim C8 is about: recommendedMemory in GiB over recommendedCPU
\* in cores, of the item computed from the responses
recommendedRatio(item) ==
  JDiv(JDiv(item.recommendedMemory, GiB), JDiv(item.recommendedCPU, Thousand))

\* C8 as stated: in every successful item, on the autoscaler path as well as on
\* the usage-fallback path, recommendedMemory in GiB divided by recommendedCPU in
\* cores lies within [1.0, 6.5].
C8_RecommendedRatioWithinBounds ==
  ev.stage = "computed" =>
    /\ JGe(recommendedRatio(ev.item), One)
    /\ JLe(recommendedRatio(ev.item), MaxRatio)

\* C9: for every successful item, whatever the current request, the autoscaler
\* recommendation (available or not, cpu and memory null or not) and the usage,
\* potentialSavings is a number >= 0.
C9_SavingsNonNegative ==
  ev.stage = "computed" =>
    /\ IsNum(ev.item.potentialSavings)
    /\ JGe(ev.item.potentialSavings, Zero)

\* the resources object the handler built for the computed item
itemResources(item) == [requests |-> [cpu |-> item.cpuRequest, memory |-> item.memoryRequest]]

\* C9 witness: the autoscaler recommends more than is requested, so that the
\* optimized cost is above the current cost, and the savings reported are 0.
C9_Witness ==
  /\ ev.stage = "computed"
  /\ ev.vpaRecommendations.available
  /\ JGt(calculateCost(optimizedResources(ev.vpaRecommendations, itemResources(ev.item)), One),
         calculateCost(itemResources(ev.item), One))
  /\ ev.item.potentialSavings = Zero

\* C10: for every successful item, for any usage series and any current request
\* (zero or missing requests included), efficiency is a whole number within
\* [0, 100].
C10_EfficiencyWholeWithinBounds ==
  ev.stage = "computed" =>
    /\ IsNum(ev.item.efficiency)
    /\ ev.item.efficiency.e >= 0
    /\ JGe(ev.item.efficiency, Zero)
    /\ JLe(ev.item.efficiency, Hundred)

\* C10 witness: no request is known (the defaults apply), the CPU used and the
\* memory used are above the defaults, and the efficiency is 100.
C10_Witness ==
  /\ ev.stage = "computed"
  /\ ev.item.cpuRequest = Zero
  /\ ev.item.memoryRequest = Zero
  /\ JGt(JMul(ev.item.cpuUsage, Thousand), DefaultCpuRequest)
  /\ JGt(ev.item.memoryUsage, DefaultMemoryRequest)
  /\ ev.item.efficiency = Hundred

\* the request an item reports as recommended
itemRecommended(item) ==
  [requests |-> [cpu |-> item.recommendedCPU, memory |-> item.recommendedMemory]]

\* max(0, cost(current, 1 replica) - cost(recommended, 1 replica)), in cents as
\* line 1299 rounds it
savingsAgainstRecommended(item) ==
  JDiv(MathRound(JMul(MathMax(Zero, JSub(calculateCost(itemResources(item), One),
                                         calculateCost(itemRecommended(item), One))),
                      Hundred)),
       Hundred)

\* C11 as stated: in every successful item potentialSavings equals
\* max(0, cost(current request, 1 replica) - cost(recommended request, 1 replica)),
\* the recommended request being the recommendedCPU and recommendedMemory of the
\* same item; so when the autoscaler has no data and the recommendation from
\* usage is below the current request, the savings are positive.
C11_SavingsFromReportedRecommendation ==
  ev.stage = "computed" => ev.item.potentialSavings = savingsAgainstRecommended(ev.item)

\* C12 as stated: a zero CPU request makes the CPU term of the efficiency 100 and
\* a zero memory request makes the memory term 100, whatever the usage; so an
\* item without any request has efficiency 100.
C12_NoRequestsScoreHundred ==
  (ev.stage = "computed" /\ ev.item.cpuRequest = Zero /\ ev.item.memoryRequest = Zero)
    => ev.item.efficiency = Hundred

\* the lines of an item's recommendation text that carry the template tag
linesTagged(item, tag) == SelectSeq(item.recommendations, LAMBDA l : l.tag = tag)

CpuTotalTag == "Total recommended: <a>m (current: <b>m)"
MemoryTotalTag == "Total recommended: <a>Mi (current: <b>Mi)"
RatioNoteTag == "Note: CPU:Memory ratio validation applied (Between 1:1 and 1:6.5)"

\* the item went down the autoscaler path and its text shows both totals
showsTotals(item) ==
  /\ item.vpaEnabled
  /\ Len(linesTagged(item, CpuTotalTag)) = 1
  /\ Len(linesTagged(item, MemoryTotalTag)) = 1

\* the totals the text shows: millicores and MiB
textTotalCpu(item) == linesTagged(item, CpuTotalTag)[1].a
textTotalMemory(item) == linesTagged(item, MemoryTotalTag)[1].a

\* memory in GiB per core of the totals the text shows
textTotalRatio(item) ==
  JDiv(JDiv(textTotalMemory(item), FInt(1024)), JDiv(textTotalCpu(item), Thousand))

\* C15 as stated: on the autoscaler path the totals shown in the text are the
\* sums of the rounded per-container values passed through the ratio validator
\* once more: when both sums are > 0, the memory in GiB per core of the totals
\* shown lies within [1.0, 6.5].
C15_TextTotalsWithinBounds ==
  (ev.stage = "computed" /\ showsTotals(ev.item)) =>
    /\ JGe(textTotalRatio(ev.item), One)
    /\ JLe(textTotalRatio(ev.item), MaxRatio)

\* C16 as stated: on the autoscaler path recommendedCPU and recommendedMemory of
\* the item equal the totals shown in the recommendation text of the same item.
C16_RecommendedEqualsTextTotals ==
  (ev.stage = "computed" /\ showsTotals(ev.item)) =>
    /\ ev.item.recommendedCPU = textTotalCpu(ev.item)
    /\ MathRound(JDiv(ev.item.recommendedMemory, MiB)) = textTotalMemory(ev.item)

\* an adjustment recorded by getResourceRequestsFromMonitoring or by
\* getVPARecommendations: a total reason or a per-container reason
recordsAdjustment(ratioAdjustments) ==
  TruthyString(ratioAdjustments.total) \/ Len(ratioAdjustments.perContainer) > 0

\* the validator adjusts the sums of the rounded per-container recommendations
aggregateAdjusted(vpaRecommendations) ==
  LET cpuTotal == ReduceSum(ObjValues(RoundedCpuPerContainer(vpaRecommendations.cpuPerContainer)))
      memoryTotal ==
        ReduceSum(ObjValues(RoundedMemoryPerContainer(vpaRecommendations.memoryPerContainer)))
  IN /\ vpaRecommendations.available
     /\ JGt(cpuTotal, Zero) /\ JGt(memoryTotal, Zero)
     /\ validateAndAdjustCPUMemoryRatio(JDiv(cpuTotal, Thousand), memoryTotal).adjusted

\* a ratio adjustment occurred somewhere in the pipeline of the workload
adjustedAnywhere ==
  \/ recordsAdjustment(resourceRequestsOf(ev.cpuRequestMetrics,
                                          ev.memoryRequestMetrics).ratioAdjustments)
  \/ recordsAdjustment(ev.vpaRecommendations.ratioAdjustments)
  \/ aggregateAdjusted(ev.vpaRecommendations)

\* C17 as stated: the recommendation text of a workload contains the note that
\* ratio validation was applied if and only if a ratio adjustment occurred
\* somewhere in its pipeline: on the observed requests, on an autoscaler value
\* or on the final aggregate.
C17_NoteIffAdjustedAnywhere ==
  ev.stage = "computed" =>
    (Len(linesTagged(ev.item, RatioNoteTag)) > 0 <=> adjustedAnywhere)

\* the positions <<series, point>> of a response, and what is found there
positionsOf(ts) == UNION {{<<i, j>> : j \in 1..Len(ts[i].points)} : i \in 1..Len(ts)}
pointAt(ts, p) == ts[p[1]].points[p[2]]
containerAt(ts, p) ==
  IF ts[p[1]].resourceContainer = "" THEN "unknown" ELSE ts[p[1]].resourceContainer
definedPositions(ts) == {p \in positionsOf(ts) : pointAt(ts, p).value.k # "undefined"}

\* p comes before q in the order forEach visits the points
visitedBefore(p, q) == p[1] < q[1] \/ (p[1] = q[1] /\ p[2] < q[2])

floorDefault(metricType) == IF metricType = "cpu" THEN FInt(10) ELSE SixteenMiB

\* C13: the autoscaler having no data, when no point of the usage response has
\* a value (the response is empty, its series have no points, or their points
\* carry no value), the recommendation is the current request when that is not
\* zero, and the floor default (10m, 16 MiB) when it is.
C13_FallsBackToRequestOrFloor ==
  (ev.stage = "recommended" /\ definedPositions(ev.timeSeries) = {}) =>
    ev.result = IF ev.currentRequest # Zero THEN ev.currentRequest
                ELSE floorDefault(ev.metricType)

\* C13 witness: two series with points, none of which has a value, and a current
\* request of 105m or 72 MiB, which is what is recommended.
C13_Witness ==
  /\ ev.stage = "recommended"
  /\ Len(ev.timeSeries) = 2
  /\ Len(ev.timeSeries[1].points) = 2 /\ Len(ev.timeSeries[2].points) = 1
  /\ definedPositions(ev.timeSeries) = {}
  /\ ev.currentRequest # Zero
  /\ ev.result = ev.currentRequest

\* the values a rounding leaves alone: the whole multiples of its step from the
\* step itself on
StepMultiples(metricType) ==
  IF metricType = "cpu" THEN {FInt(10 * k) : k \in 1..MaxRoundCpu}
  ELSE {JMul(FInt(16 * k), MiB) : k \in 1..MaxRoundMem}

\* C14: rounding is idempotent: the CPU rounding returns a multiple of 10m from
\* 10m on unchanged, the memory rounding a multiple of 16 MiB from 16 MiB on,
\* and either rounding applied to its own result returns that result.
C14_RoundingIdempotent ==
  /\ (rv.stage \in {"rounded", "rerounded"} /\ rv.value \in StepMultiples(rv.metricType))
       => rv.first = rv.value
  /\ rv.stage = "rerounded" =>
       /\ rv.first \in StepMultiples(rv.metricType)
       /\ rv.second = rv.first

\* C14 witness: a value between two multiples was rounded up, and rounding the
\* result again returned it.
C14_Witness ==
  /\ rv.stage = "rerounded"
  /\ JGt(rv.value, floorDefault(rv.metricType))
  /\ JGt(rv.first, rv.value)
  /\ rv.second = rv.first

\* the positions holding the greatest timestamp of a response
newestPositions(ts) ==
  {p \in positionsOf(ts) :
     \A q \in positionsOf(ts) : pointAt(ts, q).seconds <= pointAt(ts, p).seconds}

\* C18 as stated: calculateCurrentUsage returns the value of the point with the
\* greatest timestamp among all points of all series, whatever the order of the
\* series and of the points, and 0 when there is no point.
C18_LatestOverAllSeries ==
  ev.stage = "usage" =>
    /\ positionsOf(ev.timeSeries) = {} => ev.result = Zero
    /\ \A p \in newestPositions(ev.timeSeries) :
         (newestPositions(ev.timeSeries) = {p} /\ p \in definedPositions(ev.timeSeries))
           => ev.result = pointAt(ev.timeSeries, p).value

\* a response with its series, and the points of each series, in reverse order
Reversed(s) == [i \in 1..Len(s) |-> s[Len(s) + 1 - i]]
ReversedResponse(ts) ==
  Reversed([i \in 1..Len(ts) |-> [ts[i] EXCEPT !.points = Reversed(@)]])

\* two objects hold the same values under the same keys
sameMapping(a, b) ==
  {<<a[i].key, a[i].val>> : i \in 1..Len(a)} = {<<b[i].key, b[i].val>> : i \in 1..Len(b)}

\* C19 as stated: the result of extractPerContainerValues does not depend on the
\* order of the series and of the points: the response read in reverse order
\* gives the same mapping.
C19_LatestPerContainerAnyOrder ==
  ev.stage = "extracted" =>
    sameMapping(ev.result,
                extractPerContainerValues(ReversedResponse(ev.timeSeries), ev.metricType))

\* the positions of a container's points that have a value
definedOf(ts, name) == {p \in definedPositions(ts) : containerAt(ts, p) = name}

\* of a container's points that have a value, the first visited among those
\* with the greatest timestamp
latestOf(ts, name) ==
  CHOOSE p \in definedOf(ts, name) :
    \A q \in definedOf(ts, name) :
      \/ pointAt(ts, q).seconds < pointAt(ts, p).seconds
      \/ (pointAt(ts, q).seconds = pointAt(ts, p).seconds /\ ~visitedBefore(q, p))

unitConverted(value, metricType) ==
  IF metricType = "cpu" THEN MathRound(JMul(value, Thousand)) ELSE MathRound(value)

\* C19 amended: the result has a key for exactly the containers that have a
\* point with a value, mapped to the unit-converted value of the first point
\* visited among that container's points of greatest timestamp; a container
\* whose points have no value is absent.  The order of the input matters only
\* between points of one container that share the greatest timestamp.
C19_LatestPerContainerFirstAmongTies ==
  ev.stage = "extracted" =>
    /\ {ev.result[i].key : i \in 1..Len(ev.result)}
         = {containerAt(ev.timeSeries, p) : p \in definedPositions(ev.timeSeries)}
    /\ \A i \in 1..Len(ev.result) :
         /\ ev.result[i].val =
              unitConverted(pointAt(ev.timeSeries,
                                    latestOf(ev.timeSeries, ev.result[i].key)).value,
                            ev.metricType)
         /\ \A j \in 1..Len(ev.result) : ev.result[j].key = ev.result[i].key => j = i

\* C19 witness: container app has two points of the same timestamp with
\* different values, the first of which is reported, and container sidecar,
\* whose only point has no value, is absent.
C19_Witness ==
  /\ ev.stage = "extracted"
  /\ Len(ev.timeSeries) = 2
  /\ ev.timeSeries[2].resourceContainer = "sidecar"
  /\ Len(ev.timeSeries[2].points) = 1
  /\ definedOf(ev.timeSeries, "sidecar") = {}
  /\ Len(ev.timeSeries[1].points) = 2
  /\ ev.timeSeries[1].points[1].seconds = ev.timeSeries[1].points[2].seconds
  /\ Truthy(ev.timeSeries[1].points[1].value)
  /\ Truthy(ev.timeSeries[1].points[2].value)
  /\ ev.timeSeries[1].points[1].value # ev.timeSeries[1].points[2].value
  /\ ~ObjHas(ev.result, "sidecar")
  /\ ObjGet(ev.result, "app") =
       unitConverted(ev.timeSeries[1].points[1].value, ev.metricType)

\* the values of all points of a response that have one, zeros included, in
\* ascending order
allValuesSorted(ts) ==
  LET withValue == SelectSeq(FlattenFrom(ts, 1, "resource"),
                             LAMBDA pt : pt.value.k # "undefined")
  IN SortAscending([i \in 1..Len(withValue) |-> withValue[i].value])

\* the element at index floor(0.90 * count), with the 15% buffer, in millicores,
\* rounded up to 10m
percentileOfAll(values) ==
  RoundUpTo10m(
    JMul(JMul(values[ToInt(MathFloor(JMul(FInt(Len(values)), Dec(9, 1)))) + 1],
              Dec(115, 2)),
         Thousand))

\* C20 as stated: the CPU recommendation from usage is taken from the values of
\* all points of all series, zero-valued points included: with count the number
\* of points, from the element at index floor(0.90 * count) of the values in
\* ascending order, an index within bounds for count >= 1.
C20_PercentileOverAllPoints ==
  (ev.stage = "recommended" /\ ev.metricType = "cpu"
   /\ Len(allValuesSorted(ev.timeSeries)) >= 1) =>
    /\ ToInt(MathFloor(JMul(FInt(Len(allValuesSorted(ev.timeSeries))), Dec(9, 1))))
         < Len(allValuesSorted(ev.timeSeries))
    /\ ev.result = percentileOfAll(allValuesSorted(ev.timeSeries))

\* C21 as stated: in every value returned by getVPARecommendations, available
\* is false whenever both the cpu and the memory signal are absent (cpu = null
\* and memory = null), also when the upstream returned series that hold no
\* point or no usable value.
C21_UnavailableWhenBothAbsent ==
  (ev.kind = "recommendations" /\ ev.stage \in {"returned", "text"}
   /\ ev.result.cpu.k = "null" /\ ev.result.memory.k = "null")
    => ~ev.result.available

\* C29: validateAndAdjustCPUMemoryRatio is never called with cpuCores = 0: at
\* every call site of getResourceRequestsFromMonitoring, getVPARecommendations
\* and generateRecommendationsWithVPA, whatever signals are present, absent or
\* zero, the call is made with a CPU value that is a number greater than zero
\* and a memory value that is a number other than zero.
C29_ValidatorNeverCalledWithZero ==
  \A i \in 1..Len(ev.calls) :
    /\ ev.calls[i].cpuCores.k = "num" /\ JGt(ev.calls[i].cpuCores, Zero)
    /\ ev.calls[i].memoryBytes.k = "num" /\ ev.calls[i].memoryBytes # Zero

\* C29 happens: container app reports zero cores and is passed over, while the
\* totals, container sidecar and the sums of the rounded values are validated
C29_Witness ==
  /\ ev.stage = "text"
  /\ ObjHas(ev.result.cpuPerContainer, "app")
  /\ ObjGet(ev.result.cpuPerContainer, "app") = Zero
  /\ ObjHas(ev.result.memoryPerContainer, "app")
  /\ Truthy(ObjGet(ev.result.memoryPerContainer, "app"))
  /\ Len(ev.calls) = 3

\* r is the smallest multiple of step that is >= x and >= step
smallestMultipleAtLeast(r, x, step) ==
  /\ r.k = "num"
  /\ MathFloor(JDiv(r, step)) = JDiv(r, step)
  /\ JGe(r, step)
  /\ JGe(r, x)
  /\ (r = step \/ JLt(JSub(r, step), x))

\* every rounded CPU value is the smallest multiple of 10m at or above the
\* autoscaler's value for that container, in millicores
roundedCpuIsCeiling ==
  \A i \in 1..Len(ev.rounded.cpu) :
    ObjGet(ev.result.cpuPerContainer, ev.rounded.cpu[i].key).k = "num" =>
      smallestMultipleAtLeast(
        ev.rounded.cpu[i].val,
        JMul(ObjGet(ev.result.cpuPerContainer, ev.rounded.cpu[i].key), Thousand),
        FInt(10))

\* every rounded memory value is the smallest multiple of 16 MiB at or above
\* the autoscaler's value for that container
roundedMemoryIsCeiling ==
  \A i \in 1..Len(ev.rounded.memory) :
    ObjGet(ev.result.memoryPerContainer, ev.rounded.memory[i].key).k = "num" =>
      smallestMultipleAtLeast(
        ev.rounded.memory[i].val,
        ObjGet(ev.result.memoryPerContainer, ev.rounded.memory[i].key), SixteenMiB)

\* memory in GiB per core of a rounded pair (millicores, bytes)
roundedRatio(cpuMillicores, memoryBytes) ==
  JDiv(JDiv(memoryBytes, GiB), JDiv(cpuMillicores, Thousand))

\* the rounded pair of every container that has both signals is within the
\* ratio bounds
roundedPairsWithinBounds ==
  \A i \in 1..Len(ev.rounded.cpu) :
    (/\ Truthy(ObjGet(ev.result.cpuPerContainer, ev.rounded.cpu[i].key))
     /\ Truthy(ObjGet(ev.result.memoryPerContainer, ev.rounded.cpu[i].key)))
      => /\ JGe(roundedRatio(ev.rounded.cpu[i].val,
                             ObjGet(ev.rounded.memory, ev.rounded.cpu[i].key)), One)
         /\ JLe(roundedRatio(ev.rounded.cpu[i].val,
                             ObjGet(ev.rounded.memory, ev.rounded.cpu[i].key)), MaxRatio)

\* C26 as stated: on the autoscaler path each container's rounded CPU value is
\* the smallest multiple of 10m that is >= the autoscaler's CPU value in
\* millicores (and >= 10m), each container's rounded memory value is the
\* smallest multiple of 16 MiB that is >= the autoscaler's memory value (and
\* >= 16 MiB), and the rounded pair of every container that has both signals
\* lies within the ratio bounds [1.0, 6.5].
C26_RoundedUpAndWithinBounds ==
  (ev.stage = "text" /\ ev.result.available) =>
    /\ roundedCpuIsCeiling
    /\ roundedMemoryIsCeiling
    /\ roundedPairsWithinBounds

\* the containers for which a response holds at least one point with a value
signalKeys(metrics) ==
  {pt.container : pt \in {p \in {FlattenFrom(metrics, 1, "resource")[i] :
                                    i \in 1..Len(FlattenFrom(metrics, 1, "resource"))} :
                            p.value.k # "undefined"}}

keysOf(o) == {o[i].key : i \in 1..Len(o)}

\* the value getResourceRequestsFromMonitoring extracts for each container
\* that has the signal, summed
signalSum(metrics, metricType) ==
  ReduceSum(ObjValues(extractPerContainerValues(metrics, metricType)))

\* C30 as stated: no container signal is lost or invented when the
\* per-container maps are ratio-adjusted: every container that has a memory
\* value appears in the returned memoryPerContainer even if it has no CPU
\* value, no container without a memory value is given a memory entry, and the
\* returned total CPU and memory request are defined numbers, equal to the sum
\* over exactly the containers that have that signal when no ratio adjustment
\* was made.
C30_NoSignalLostOrInvented ==
  ev.stage = "returned" =>
    /\ signalKeys(ev.memoryMetrics) \subseteq keysOf(ev.result.memoryPerContainer)
    /\ keysOf(ev.result.memoryPerContainer) \subseteq signalKeys(ev.memoryMetrics)
    /\ ev.kind = "requests" =>
         /\ ev.result.cpuRequest.k = "num"
         /\ ev.result.memoryRequest.k = "num"
         /\ ~recordsAdjustment(ev.result.ratioAdjustments) =>
              /\ ev.result.cpuRequest = signalSum(ev.cpuMetrics, "cpu")
              /\ ev.result.memoryRequest = signalSum(ev.memoryMetrics, "memory")

AllowTimeTag ==
  "VPA recommendations not yet available - allow more time for VPA to collect data"

\* C28 as stated: whenever no autoscaler data existed at all for a workload
\* (the autoscaler CPU and memory queries both return nothing), the
\* recommendation text of its item contains the note to allow more time for
\* autoscaler data collection.
C28_NoDataGivesAllowTimeNote ==
  (ev.stage = "computed" /\ ev.cpuRecommendations = <<>> /\ ev.memoryRecommendations = <<>>)
    => Len(linesTagged(ev.item, AllowTimeTag)) > 0

\* the usable values of a usage response: those of the points whose value is
\* neither missing nor zero, in the order of the response
usableValues(ts) == TruthyValues(ts, 1)

\* v is the 90th percentile of values: the element which at most
\* floor(0.90 * count) elements are below and more than that many are at or
\* below
isPercentile90(v, values) ==
  /\ \E i \in 1..Len(values) : values[i] = v
  /\ Cardinality({i \in 1..Len(values) : JLt(values[i], v)}) <= (9 * Len(values)) \div 10
  /\ Cardinality({i \in 1..Len(values) : JLe(values[i], v)}) > (9 * Len(values)) \div 10

isMaximum(v, values) ==
  /\ \E i \in 1..Len(values) : values[i] = v
  /\ \A i \in 1..Len(values) : JLe(values[i], v)

AllNamespace == <<"a", "l", "l">>

KeyProjects == {Project, <<"p", "-", "2">>}
KeyClusters == {Cluster, <<"c", "2">>}
KeyNamespaces == {<<>>, AllNamespace, Prod}
KeyWorkloads == {Web, Api}
KeyMetricTypes == {CpuUsageMetric, MemoryUsageMetric}
KeyStartTimes == {0, HourMs}
KeyEndTimes == {2 * HourMs, 3 * HourMs}

Queries ==
  [projectId : KeyProjects, clusterName : KeyClusters, namespace : KeyNamespaces,
   workloadName : KeyWorkloads, metricType : KeyMetricTypes,
   startTime : KeyStartTimes, endTime : KeyEndTimes]

\* line 556 for the query
metricsKeyOf(q) ==
  metricsCacheKey(q.projectId, q.clusterName, q.namespace, q.workloadName, q.metricType,
                  q.startTime, q.endTime)

\* line 658 for the query
recommendationsKeyOf(q) ==
  recommendationsCacheKey(q.projectId, q.clusterName, q.namespace, q.workloadName,
                          q.startTime)

InitKeys ==
  /\ rv \in {[stage |-> "queries", a |-> a, b |-> b, metricsKeys |-> <<>>,
               recommendationsKeys |-> <<>>] : a \in Queries, b \in Queries}
  /\ ev = EngineIdle
  /\ HandlerOff

\* lines 556 and 658, for both queries
KeysCompute ==
  /\ rv.stage = "queries"
  /\ rv' = [rv EXCEPT !.stage = "keyed",
                      !.metricsKeys = <<metricsKeyOf(rv.a), metricsKeyOf(rv.b)>>,
                      !.recommendationsKeys =
                         <<recommendationsKeyOf(rv.a), recommendationsKeyOf(rv.b)>>]
  /\ UNCHANGED <<ev, handlerVars>>

NextKeys == KeysCompute

SpecKeys == InitKeys /\ [][NextKeys]_vars

(***************************************************************************)
(* C22: the category of an upstream failure in the response                *)
(***************************************************************************)

\* lines 1121-1144: the status the outer catch of the handler answers with for
\* an error of the given code
statusOfCode(code) ==
  CASE code = "ENOTFOUND" -> 503
    [] code = "UNAUTHENTICATED" -> 401
    [] code = "PERMISSION_DENIED" -> 403
    [] code = "NOT_FOUND" -> 404
    [] OTHER -> 500

\* the response tells the failure: by its status, or by an error item whose
\* text ends with the message of the failure (line 1109 after line 652)
responseShows(error) ==
  \/ response.status = statusOfCode(error.code)
  \/ \E i \in 1..Len(response.workloads) :
       /\ response.workloads[i].status = "error"
       /\ response.workloads[i].error[4] = error.message

\* C22: once the handler has answered a request during which an upstream read
\* failed, the response shows the category of that failure (unauthenticated,
\* permission denied, not found or unavailable): its status is the one of that
\* category, or one of its items carries an error of that category, so that the
\* four categories lead to four different responses.
C22_FailureCategoryShown ==
  (pc = "responded" /\ env.rejected # "") =>
    \E error \in UpstreamErrors : error.code = env.rejected /\ responseShows(error)

(***************************************************************************)
(* C25: the cache-aside protocol of getMetricsFromMonitoring               *)
(***************************************************************************)

\* the handler is inside a call of getMetricsFromMonitoring, at the given await
inCall(at) == pc = "processing" /\ pos \in ReadPositions /\ phase = at

\* getCachedData finds the key of the running call (lines 557-559)
cacheHit ==
  /\ redisClient # "null"
  /\ ~env.call.getFault
  /\ ObjHas(cache, cacheKeyAt(pos))

\* the entry line 647 writes for the value fetched by the running call
entryOfFetched ==
  [string |-> JSONStringify(Fetched(Upstream(workloadAt.name, metricTypeAt(pos)))),
   ttl |-> CacheTtlMetrics]

\* the cache accepts the write of the running call (lines 141-148)
writeAccepted == redisClient # "null" /\ ~env.call.setFault

\* C25 as stated: whenever getMetricsFromMonitoring returns a value it fetched
\* upstream, that value is in the cache under the key of the call with the
\* metrics TTL.
C25_FetchedValueIsWrittenBeforeReturn ==
  (inCall("return") /\ env.call.fetched) =>
    /\ ObjHas(cache, cacheKeyAt(pos))
    /\ ObjGet(cache, cacheKeyAt(pos)) = entryOfFetched

\* the states of the protocol: the upstream call is issued only after a miss, a
\* value returned without an upstream call is the cached one, and a fetched
\* value is returned after it was written, if the cache accepted the write
cacheAsideStates ==
  /\ inCall("fetch") => ~cacheHit
  /\ (inCall("return") /\ ~env.call.fetched) =>
       /\ cacheHit
       /\ loc.pending = ObjGet(cache, cacheKeyAt(pos)).string
  /\ (inCall("set") \/ inCall("return")) /\ env.call.fetched =>
       loc.pending = Fetched(Upstream(workloadAt.name, metricTypeAt(pos)))
  /\ (inCall("return") /\ env.call.fetched /\ writeAccepted) =>
       /\ ObjHas(cache, cacheKeyAt(pos))
       /\ ObjGet(cache, cacheKeyAt(pos)) = entryOfFetched

\* the steps of the protocol: only the step after a successful fetch changes the
\* cache, and only the entry of the key of the call; a failed upstream call
\* leaves the cache alone and throws to the caller
cacheAsideSteps ==
  /\ (inCall("get") \/ inCall("fetch") \/ inCall("return")) => cache' = cache
  /\ inCall("set") =>
       cache' = IF redisClient # "null" /\ ~env'.call.setFault
                THEN ObjSet(cache, cacheKeyAt(pos), entryOfFetched)
                ELSE cache
  /\ (inCall("fetch") /\ env'.failed # env.failed) =>
       /\ cache' = cache
       /\ <<idx, pos>> \in env'.surfaced
       /\ loc'.pending = NoValue
       /\ ~(pos' = pos /\ idx' = idx /\ phase' \in {"set", "return"})

\* C25, amended: on a hit the cached value is returned and no upstream call is
\* issued; on a miss one upstream call is issued and, if it succeeds, its result
\* is returned after being written under the same key with the metrics TTL,
\* unless no cache client is configured or the write is rejected, in which case
\* it is returned with the cache unchanged; if the upstream call fails nothing
\* is written and the error is thrown to the caller.
C25_CacheAsideProtocol == []cacheAsideStates /\ [][cacheAsideSteps]_vars

\* C25 witness: a call that missed returns the value it fetched, which is now
\* in the cache under its key with the metrics TTL.
C25_Witness ==
  /\ inCall("return") /\ env.call.fetched
  /\ ObjHas(cache, cacheKeyAt(pos))
  /\ ObjGet(cache, cacheKeyAt(pos)) = entryOfFetched

(***************************************************************************)
(* C23: the cache keys tell queries apart                                  *)
(***************************************************************************)

\* the identity of an autoscaler lookup: the query without its metric kind
recommendationsQuery(q) == [q EXCEPT !.metricType = ""]

\* C23: two lookups that differ in project, cluster, namespace, workload,
\* metric kind, window start or window end never use the same raw-metrics key,
\* and two autoscaler lookups that differ in project, cluster, namespace,
\* workload, window start or window end never use the same recommendation key.
C23_CacheKeysAreInjective ==
  rv.stage = "keyed" =>
    /\ rv.a # rv.b => rv.metricsKeys[1] # rv.metricsKeys[2]
    /\ recommendationsQuery(rv.a) # recommendationsQuery(rv.b) =>
         rv.recommendationsKeys[1] # rv.recommendationsKeys[2]

(***************************************************************************)
(* Spec: concurrent calls of getMetricsFromMonitoring.  Two pipelines      *)
(* (calls made on behalf of concurrent batch requests) run lines 556-649   *)
(* against the same cache, interleaved at their awaits: the cache read,    *)
(* listTimeSeries and the cache write.  What listTimeSeries answers for a  *)
(* query may change between calls.  A pipeline may be abandoned after its  *)
(* fetch and before its cache write.                                       *)
(***************************************************************************)
Pipelines == {1, 2}

MaxPipelineCalls == 2

MaxUpstreamVersion == 2

ConcurrentQueries ==
  {[projectId |-> Project, clusterName |-> Cluster, namespace |-> Prod,
    workloadName |-> w, metricType |-> CpuUsageMetric, startTime |-> 0,
    endTime |-> HourMs] : w \in {Web, Api}}

\* what listTimeSeries answers for the query: Upstream at first, no series once
\* the workload is gone
UpstreamAt(q, version) ==
  IF version = 1 THEN Upstream(q.workloadName, q.metricType) ELSE <<>>

PipelineIdle == [at |-> "idle", cacheKey |-> <<>>, query |-> <<>>, pending |-> NoValue,
                 calls |-> 0]

ConcurrentIdle ==
  [pipelines |-> [p \in Pipelines |-> PipelineIdle], upstream |-> 1, lastKey |-> <<>>,
   fetches |-> {}, reads |-> {}]

InitConcurrent ==
  /\ rv = RatioIdle
  /\ ev = ConcurrentIdle
  /\ redisClient = "connected"
  /\ cache = EmptyObj
  /\ now = 0
  /\ pc = "off"
  /\ request = NoRequest
  /\ idx = 0
  /\ pos = ""
  /\ phase = ""
  /\ loc = LocIdle
  /\ metricsData = <<>>
  /\ response = NoResponse
  /\ env = EnvIdle

concurrentRest == <<rv, redisClient, now, pc, request, idx, pos, phase, loc, metricsData,
                    response, env>>

\* a plausible slip: cacheKey is a variable of the module, shared by the calls
storeKey_shared(p) == ev.lastKey

\* line 647: the key the write uses is the constant of the call (line 556)
storeKey(p) == ev.pipelines[p].cacheKey

\* line 556: a call starts and computes its key
PipelineStart(p) ==
  /\ ev.pipelines[p].at = "idle"
  /\ ev.pipelines[p].calls < MaxPipelineCalls
  /\ \E q \in ConcurrentQueries :
       ev' = [ev EXCEPT !.pipelines[p] = [at |-> "get", cacheKey |-> metricsKeyOf(q),
                                          query |-> q, pending |-> NoValue,
                                          calls |-> @.calls + 1],
                        !.lastKey = metricsKeyOf(q)]
  /\ UNCHANGED <<cache, concurrentRest>>

\* lines 557-561: the cache read; a hit returns the cached value
PipelineGet(p) ==
  /\ ev.pipelines[p].at = "get"
  /\ \E fault \in BOOLEAN :
       LET result == getCachedData(redisClient, cache, ev.pipelines[p].cacheKey, fault)
       IN ev' = IF result.hit
                THEN [ev EXCEPT !.pipelines[p].at = "idle",
                                !.reads = @ \cup {[key |-> ev.pipelines[p].cacheKey,
                                                   value |-> result.value]}]
                ELSE [ev EXCEPT !.pipelines[p].at = "fetch"]
  /\ UNCHANGED <<cache, concurrentRest>>

\* lines 635-644: listTimeSeries resolves
PipelineFetch(p) ==
  /\ ev.pipelines[p].at = "fetch"
  /\ LET response_ == Fetched(UpstreamAt(ev.pipelines[p].query, ev.upstream))
     IN ev' = [ev EXCEPT !.pipelines[p].at = "set",
                         !.pipelines[p].pending = response_,
                         !.fetches = @ \cup {[key |-> ev.pipelines[p].cacheKey,
                                              value |-> JSONStringify(response_)]}]
  /\ UNCHANGED <<cache, concurrentRest>>

\* lines 635-653: listTimeSeries rejects; the call throws
PipelineFetchFails(p) ==
  /\ ev.pipelines[p].at = "fetch"
  /\ ev' = [ev EXCEPT !.pipelines[p].at = "idle"]
  /\ UNCHANGED <<cache, concurrentRest>>

\* lines 647-649: the cache write, then the return
PipelineStore(p) ==
  /\ ev.pipelines[p].at = "set"
  /\ \E fault \in BOOLEAN :
       cache' = setCachedData(redisClient, cache, storeKey(p), ev.pipelines[p].pending,
                              CacheTtlMetrics, fault)
  /\ ev' = [ev EXCEPT !.pipelines[p].at = "idle", !.pipelines[p].pending = NoValue]
  /\ UNCHANGED concurrentRest

\* the call never reaches line 647
PipelineAbandoned(p) ==
  /\ ev.pipelines[p].at = "set"
  /\ ev' = [ev EXCEPT !.pipelines[p].at = "abandoned"]
  /\ UNCHANGED <<cache, concurrentRest>>

\* the workload's series are no longer there
UpstreamChanges ==
  /\ ev.upstream < MaxUpstreamVersion
  /\ ev' = [ev EXCEPT !.upstream = @ + 1]
  /\ UNCHANGED <<cache, concurrentRest>>

NextConcurrent ==
  \/ \E p \in Pipelines : PipelineStart(p)
  \/ \E p \in Pipelines : PipelineGet(p)
  \/ \E p \in Pipelines : PipelineFetch(p)
  \/ \E p \in Pipelines : PipelineFetchFails(p)
  \/ \E p \in Pipelines : PipelineStore(p)
  \/ \E p \in Pipelines : PipelineAbandoned(p)
  \/ UpstreamChanges

SpecConcurrent == InitConcurrent /\ [][NextConcurrent]_vars

(***************************************************************************)
(* C24: what concurrent pipelines leave in the cache                       *)
(***************************************************************************)

\* the value is the whole of what some pipeline fetched for the key
fetchedFor(key, value) == [key |-> key, value |-> value] \in ev.fetches

\* C24: whatever the interleaving of the pipelines, and whichever of them were
\* abandoned between fetch and cache write, every entry of the cache and every
\* value a pipeline has read from the cache under a key is a complete value
\* that some pipeline fetched for that key.
C24_CacheHoldsOnlyFetchedValues ==
  /\ \A i \in 1..Len(cache) : fetchedFor(cache[i].key, cache[i].val.string)
  /\ \A r \in ev.reads : fetchedFor(r.key, r.value)

\* C24 witness: both pipelines fetched different values for the same key, one
\* of them was abandoned before its write, and a value was read under that key.
C24_Witness ==
  /\ \E f \in ev.fetches, g \in ev.fetches : f.key = g.key /\ f.value # g.value
  /\ \E p \in Pipelines : ev.pipelines[p].at = "abandoned"
  /\ \E r \in ev.reads, f \in ev.fetches : r.key = f.key /\ r.value # f.value

====
